---- MODULE Spec2Model ----
(***************************************************************************)
(* A model of the ironcraft / sandstone wire codec and connection layer:   *)
(*   - VarInt / VarLong         src/src/protocol_details/datatypes/var_types.rs *)
(*   - the packets! registry    src/sandstone/src/protocol/packet_definer.rs    *)
(*   - CraftClient              src/src/network/connection.rs                   *)
(* Rust's i32 / i64 are bit vectors (sequences of 0/1, index 1 = bit 0), so *)
(* that shifts, masks and casts wrap exactly as the machine integers do.    *)
(***************************************************************************)
EXTENDS Integers, Sequences, FiniteSets, TLC

VARIABLES
    cKind,      \* codec run: which value is pushed through the codec
    cIn,        \* codec run: the input value (an integer, a byte string, a packet)
    cStage,     \* codec run: "start", "encoded", "decoded", "reencoded"
    cBytes,     \* codec run: the bytes produced by the encoder
    cRes,       \* codec run: the Result produced by the decoder
    sent,       \* the frames the peer writes to the socket, in order
    offset,     \* how many bytes of the peer's stream tcp_stream has handed out
    sock,       \* the socket: "open", "eof" (the peer closed it), "failed" (an OS error)
    shutdown,   \* CraftClient::close has shut the socket down
    buffer,     \* CraftClient.buffer, the residual bytes
    packet_state,  \* CraftClient.packet_state
    received,   \* the packets returned by receive_packet, in order, each with the state it
                \* was decoded under
    last,       \* the last receive_packet call: its result, its socket reads, the bytes it took
    compression_threshold,  \* CraftClient.compression_threshold
    peeked,     \* the result of a peek_next_packet_details call made since the last
                \* receive_packet call
    out,        \* the bytes the socket has accepted from the host, in order
    sends,      \* the send_packet calls: the packet, where its bytes start in out, the result
    requested,  \* the argument of the most recent change_state call
    frame,      \* the bytes of the frame the last receive_packet call decoded
    type_id,    \* NbtList.type_id
    list,       \* NbtList.list
    list_result,  \* the Result of the last NbtList::add or NbtList::add_tag call
    map,        \* NbtCompound.map: the entries of the IndexMap, in its order
    root_name,  \* NbtCompound.root_name
    order       \* the names present in the compound, in the order of their insertion

codecVars == <<cKind, cIn, cStage, cBytes, cRes>>
connVars == <<sent, offset, sock, shutdown, buffer, packet_state, received, last,
              compression_threshold, peeked, out, sends, requested, frame>>
nbtVars == <<type_id, list, list_result, map, root_name, order>>
vars == <<codecVars, connVars, nbtVars>>

\* ---------------------------------------------------------------- bounds
\* The peer writes at most MaxFrames frames.
MaxFrames == 2
\* A socket read ends at most MaxSmallRead bytes after a frame boundary, or
\* takes everything that fits.
MaxSmallRead == 2
\* The longest string sample: long enough for a two-byte VarInt length prefix.
LongStringLen == 128
\* An NbtList is given at most MaxListLen elements.
MaxListLen == 2
\* Integer samples are taken at distance 0..SampleSpread around every power of two.
SampleSpread == 1
\* Raw byte strings handed to from_slice are up to ExtraBytes longer than the
\* longest encoding.
ExtraBytes == 2

\* ---------------------------------------------------------------- results
Ok(v) == [ok |-> TRUE, val |-> v]
Err(e) == [ok |-> FALSE, err |-> e]
\* the call does not return: the thread panics or the stack overflows
Crash(how) == [ok |-> FALSE, err |-> how, crash |-> TRUE]
Crashed(r) == "crash" \in DOMAIN r
None == [ok |-> FALSE, err |-> "none"]

\* ---------------------------------------------------------------- machine integers
RECURSIVE Pow2(_)
Pow2(k) == IF k = 0 THEN 1 ELSE 2 * Pow2(k - 1)
Pow2Table == [k \in 0..30 |-> Pow2(k)]

\* bit k (0 = least significant, k <= 30) of a natural number n < 2^31
BitOf(n, k) == (n \div Pow2Table[k]) % 2

\* the w-bit pattern of a natural number n < 2^31 (a zero-extending cast)
NatBits(n, w) == [i \in 1..w |-> IF i <= 31 THEN BitOf(n, i - 1) ELSE 0]

\* the value of a bit pattern whose bits above bit 30 are all clear
RECURSIVE BitsNatFrom(_, _)
BitsNatFrom(b, i) == IF i > Len(b) THEN 0 ELSE b[i] + 2 * BitsNatFrom(b, i + 1)
BitsNat(b) == BitsNatFrom(b, 1)

\* `x as i32` for a literal or a length: two's complement of an integer of TLC,
\* whose integers are exactly the i32 range
IntToI32(n) ==
    IF n >= 0 THEN NatBits(n, 32)
    ELSE [i \in 1..32 |-> IF i = 32 THEN 1 ELSE BitOf((n + 2147483647) + 1, i - 1)]

\* the i32 value of a 32-bit pattern
I32ToInt(b) ==
    LET low == BitsNat(SubSeq(b, 1, 31))
    IN  IF b[32] = 0 THEN low ELSE (low - 2147483647) - 1

\* `x as i64` of an i32: sign extension
I32ToI64(b) == [i \in 1..64 |-> IF i <= 32 THEN b[i] ELSE b[32]]

\* `*b as i32`, `*b as i64`: a u8 zero-extended
ByteToI32(byte) == NatBits(byte, 32)
ByteToI64(byte) == NatBits(byte, 64)

\* `x as u8`, `x.to_le_bytes()[0]`: the low eight bits
LowByte(b) == BitsNat(SubSeq(b, 1, 8))

BvAnd(a, b) == [i \in 1..Len(a) |-> a[i] * b[i]]
BvOr(a, b) == [i \in 1..Len(a) |-> IF a[i] + b[i] > 0 THEN 1 ELSE 0]
BvNot(a) == [i \in 1..Len(a) |-> 1 - a[i]]
BvIsZero(a) == \A i \in 1..Len(a) : a[i] = 0
\* `a << k` for 0 <= k < width: bits shifted out are dropped
BvShl(a, k) == [i \in 1..Len(a) |-> IF i - k >= 1 THEN a[i - k] ELSE 0]
\* `(a as uN) >> k`: logical shift right
BvLShr(a, k) == [i \in 1..Len(a) |-> IF i + k <= Len(a) THEN a[i + k] ELSE 0]
\* `a >> k` on a signed integer: arithmetic shift right
BvAShr(a, k) == [i \in 1..Len(a) |-> IF i + k <= Len(a) THEN a[i + k] ELSE a[Len(a)]]
\* `a >= 0` on a signed integer
BvNonNeg(a) == a[Len(a)] = 0

\* ---------------------------------------------------------------- VarInt / VarLong
SEGMENT_INT == 127
SEGMENT_LONG == 127
CONTINUE_INT == 128
CONTINUE_LONG == 128

\* the constants as i32 / i64 operands
SegmentInt == IntToI32(SEGMENT_INT)
ContinueInt == IntToI32(CONTINUE_INT)
SegmentLong == NatBits(SEGMENT_LONG, 64)
ContinueLong == NatBits(CONTINUE_LONG, 64)
ZeroInt == IntToI32(0)
ZeroLong == NatBits(0, 64)

\* the longest encodings from_slice accepts
VARINT_MAX_BYTES == 5
VARLONG_MAX_BYTES == 10

\* a loop of from_slice without the check of the bit position
RECURSIVE VarInt_from_slice_loop_unchecked(_, _, _, _)
VarInt_from_slice_loop_unchecked(bytes, k, i, pos) ==
    IF k > Len(bytes) THEN Ok(i)
    ELSE LET local == ByteToI32(bytes[k])
             i2 == BvOr(i, BvShl(BvAnd(local, SegmentInt), pos))
         IN  IF BvIsZero(BvAnd(local, ContinueInt)) THEN Ok(i2)
             ELSE VarInt_from_slice_loop_unchecked(bytes, k + 1, i2, pos + 7)

\* the loop of VarInt::from_slice from byte k on, with the accumulator i and
\* the bit position pos
RECURSIVE VarInt_from_slice_loop(_, _, _, _)
VarInt_from_slice_loop(bytes, k, i, pos) ==
    IF k > Len(bytes) THEN Ok(i)
    ELSE LET local == ByteToI32(bytes[k])
             i2 == BvOr(i, BvShl(BvAnd(local, SegmentInt), pos))
         IN  IF BvIsZero(BvAnd(local, ContinueInt)) THEN Ok(i2)
             ELSE IF pos + 7 >= 32 THEN Err("Bit length is too long")
             ELSE VarInt_from_slice_loop(bytes, k + 1, i2, pos + 7)

\* a from_slice whose overflow check is off by one group
VarInt_from_slice_early(bytes) ==
    LET r == VarInt_from_slice_loop(bytes, 1, ZeroInt, 0)
    IN  IF Len(bytes) >= 5 THEN Err("Max bytes of byte array is 5. VarInts are i32")
        ELSE r

VarInt_from_slice(bytes) ==
    IF Len(bytes) > VARINT_MAX_BYTES THEN Err("Max bytes of byte array is 5. VarInts are i32")
    ELSE VarInt_from_slice_loop(bytes, 1, ZeroInt, 0)

\* the loop of VarInt::to_bytes on the remaining value inner
RECURSIVE VarInt_to_bytes_loop(_)
VarInt_to_bytes_loop(inner) ==
    IF BvIsZero(BvAnd(inner, BvNot(SegmentInt)))
    THEN <<LowByte(inner)>>
    ELSE <<LowByte(BvOr(BvAnd(inner, SegmentInt), ContinueInt))>>
         \o VarInt_to_bytes_loop(IF BvNonNeg(inner) THEN BvAShr(inner, 7)
                                 ELSE BvLShr(inner, 7))

\* a to_bytes that stops one bit late: it tests the remaining value against 0xFF
VarInt_to_bytes_widemask(n) ==
    IF BvIsZero(BvAnd(n, BvNot(IntToI32(255)))) THEN <<LowByte(n)>>
    ELSE VarInt_to_bytes_loop(n)

VarInt_to_bytes(n) == VarInt_to_bytes_loop(n)

RECURSIVE VarLong_from_slice_loop(_, _, _, _)
VarLong_from_slice_loop(bytes, k, i, pos) ==
    IF k > Len(bytes) THEN Ok(i)
    ELSE LET local == ByteToI64(bytes[k])
             i2 == BvOr(i, BvShl(BvAnd(local, SegmentLong), pos))
         IN  IF BvIsZero(BvAnd(local, ContinueLong)) THEN Ok(i2)
             ELSE IF pos + 7 >= 64 THEN Err("Bit length is too long")
             ELSE VarLong_from_slice_loop(bytes, k + 1, i2, pos + 7)

\* a from_slice that keeps VarInt's 32-bit position check
VarLong_from_slice_narrow(bytes) ==
    IF Len(bytes) > 5 THEN Err("Max bytes of byte array is 10. VarLongs are i64")
    ELSE VarLong_from_slice_loop(bytes, 1, ZeroLong, 0)

VarLong_from_slice(bytes) ==
    IF Len(bytes) > VARLONG_MAX_BYTES THEN Err("Max bytes of byte array is 10. VarLongs are i64")
    ELSE VarLong_from_slice_loop(bytes, 1, ZeroLong, 0)

RECURSIVE VarLong_to_bytes_loop(_)
VarLong_to_bytes_loop(inner) ==
    IF BvIsZero(BvAnd(inner, BvNot(SegmentLong)))
    THEN <<LowByte(inner)>>
    ELSE <<LowByte(BvOr(BvAnd(inner, SegmentLong), ContinueLong))>>
         \o VarLong_to_bytes_loop(IF BvNonNeg(inner) THEN BvAShr(inner, 7)
                                  ELSE BvLShr(inner, 7))

\* a to_bytes that drops the continuation bit of every byte
RECURSIVE VarLong_to_bytes_nocont(_)
VarLong_to_bytes_nocont(inner) ==
    IF BvIsZero(BvAnd(inner, BvNot(SegmentLong)))
    THEN <<LowByte(inner)>>
    ELSE <<LowByte(BvAnd(inner, SegmentLong))>>
         \o VarLong_to_bytes_nocont(BvLShr(inner, 7))

VarLong_to_bytes(n) == VarLong_to_bytes_loop(n)

\* ---------------------------------------------------------------- serializer buffers
\* McSerializer::serialize_bytes: the input appended to the output
serialize_bytes(output, input) == output \o input

\* McSerializer::merge: the other serializer's output appended
merge(output, other) == output \o other

\* The input cursor McDeserializer is a byte string data and a 1-based index
\* of the next unread byte; a successful read returns the value and the index
\* after it.
OkAt(v, idx) == [ok |-> TRUE, val |-> v, idx |-> idx]

\* McDeserializer::collect_remaining: the bytes from the index on
collect_remaining(data, idx) == SubSeq(data, idx, Len(data))

\* McDeserializer::sub_deserializer_length: a child cursor over the next n
\* bytes, the parent advanced past them; fails when fewer than n bytes remain.
\* n is `length.0 as usize`: a negative i32 is a length no input reaches.
sub_deserializer_length(data, idx, n) ==
    IF n < 0 \/ idx + n - 1 > Len(data) THEN Err("InputEnded")
    ELSE [ok |-> TRUE, val |-> SubSeq(data, idx, idx + n - 1), idx |-> idx + n]

\* ---------------------------------------------------------------- primitive codecs
\* VarInt::mc_deserialize: the bytes up to and including the first one without
\* the continuation bit, through VarInt::from_slice; fails when the input ends
\* before such a byte or when five bytes go by without one
VarInt_mc_deserialize(data, idx) ==
    LET avail == IF Len(data) - idx + 1 < 5 THEN Len(data) - idx + 1 ELSE 5
        ends == {n \in 1..avail : data[idx + n - 1] < CONTINUE_INT}
    IN  IF ends = {}
        THEN IF avail = 5 THEN Err("VarTypeTooLong") ELSE Err("InputEnded")
        ELSE LET n == CHOOSE m \in ends : \A o \in ends : m <= o
                 r == VarInt_from_slice(SubSeq(data, idx, idx + n - 1))
             IN  IF r.ok THEN OkAt(r.val, idx + n) ELSE Err("VarTypeTooLong")

\* VarInt::mc_serialize
VarInt_mc_serialize(v) == VarInt_to_bytes(v)

\* Vec<u8>::mc_serialize: every byte in order, no length prefix
VecU8_mc_serialize(bytes) == bytes

\* the number of continuation bytes a lead byte announces; 4 for a byte that
\* starts no character
Utf8More(b) ==
    IF b < 128 THEN 0
    ELSE IF b >= 194 /\ b <= 223 THEN 1
    ELSE IF b >= 224 /\ b <= 239 THEN 2
    ELSE IF b >= 240 /\ b <= 244 THEN 3
    ELSE 4
Utf8Cont(b) == b >= 128 /\ b <= 191

\* the bytes are well-formed UTF-8: every lead byte is followed by the
\* continuation bytes it announces, and every continuation byte belongs to one
IsUtf8(bytes) ==
    \A i \in 1..Len(bytes) :
        IF Utf8Cont(bytes[i])
        THEN \E d \in 1..3 :
                 /\ i - d >= 1
                 /\ ~Utf8Cont(bytes[i - d])
                 /\ Utf8More(bytes[i - d]) < 4
                 /\ Utf8More(bytes[i - d]) >= d
                 /\ \A e \in 1..(d - 1) : Utf8Cont(bytes[i - e])
        ELSE /\ Utf8More(bytes[i]) < 4
             /\ i + Utf8More(bytes[i]) <= Len(bytes)
             /\ \A j \in 1..Utf8More(bytes[i]) : Utf8Cont(bytes[i + j])

\* big-endian bytes of a w-bit pattern
BeBytes(b) == [k \in 1..(Len(b) \div 8) |->
                  BitsNat(SubSeq(b, Len(b) - 8 * k + 1, Len(b) - 8 * k + 8))]
\* the pattern of big-endian bytes
BeBits(bytes) == [i \in 1..(8 * Len(bytes)) |->
                     BitOf(bytes[Len(bytes) - ((i - 1) \div 8)], (i - 1) % 8)]

\* <$t>::mc_serialize of a field of wire type t
SerializeField(t, v) ==
    CASE t = "VarInt" -> VarInt_mc_serialize(v)
      [] t = "String" -> VarInt_mc_serialize(IntToI32(Len(v))) \o v
      [] t = "u16" -> <<v \div 256, v % 256>>
      [] t = "i64" -> BeBytes(v)

\* <$t>::mc_deserialize of a field of wire type t at the cursor
DeserializeField(t, data, idx) ==
    CASE t = "VarInt" -> VarInt_mc_deserialize(data, idx)
      [] t = "String" ->
            LET l == VarInt_mc_deserialize(data, idx)
            IN  IF ~l.ok THEN l
                ELSE LET n == I32ToInt(l.val)
                     IN  IF n < 0 \/ l.idx + n - 1 > Len(data) THEN Err("InputEnded")
                         ELSE IF ~IsUtf8(SubSeq(data, l.idx, l.idx + n - 1))
                         THEN Err("CouldNotDeserializeString")
                         ELSE OkAt(SubSeq(data, l.idx, l.idx + n - 1), l.idx + n)
      [] t = "u16" ->
            IF idx + 1 > Len(data) THEN Err("InputEnded")
            ELSE OkAt(data[idx] * 256 + data[idx + 1], idx + 2)
      [] t = "i64" ->
            IF idx + 7 > Len(data) THEN Err("InputEnded")
            ELSE OkAt(BeBits(SubSeq(data, idx, idx + 7)), idx + 8)

\* ---------------------------------------------------------------- packets! registry
PacketStates == {"STATUS", "HANDSHAKING", "LOGIN", "CONFIGURATION", "PLAY"}
PacketDirections == {"SERVER", "CLIENT", "BIDIRECTIONAL"}

\* a from_id that takes the two ids the other way round
PacketState_from_id_swapped(id) ==
    CASE id = 1 -> Ok("LOGIN")
      [] id = 2 -> Ok("STATUS")
      [] OTHER -> None

\* PacketState::from_id: an Option, None for an id that is unknown
PacketState_from_id(id) ==
    CASE id = 1 -> Ok("STATUS")
      [] id = 2 -> Ok("LOGIN")
      [] OTHER -> None

\* PacketState::get_id
PacketState_get_id(self) ==
    CASE self = "STATUS" -> Ok(1)
      [] self = "LOGIN" -> Ok(2)
      [] OTHER -> None

Field(f, t) == [field |-> f, t |-> t]

\* The schema handed to packets!: state => direction => name, id => fields.
\* An excerpt of the protocol table, in declaration order.
Registry ==
    << [name |-> "Handshaking", packetID |-> 0, state |-> "HANDSHAKING", direction |-> "SERVER",
        fields |-> <<Field("protocol_version", "VarInt"), Field("server_address", "String"),
                     Field("port", "u16"), Field("next_state", "VarInt")>>],
       [name |-> "StatusResponse", packetID |-> 0, state |-> "STATUS", direction |-> "CLIENT",
        fields |-> <<Field("response", "String")>>],
       [name |-> "PingResponse", packetID |-> 1, state |-> "STATUS", direction |-> "CLIENT",
        fields |-> <<Field("payload", "i64")>>],
       [name |-> "StatusRequest", packetID |-> 0, state |-> "STATUS", direction |-> "SERVER",
        fields |-> <<>>],
       [name |-> "PingRequest", packetID |-> 1, state |-> "STATUS", direction |-> "SERVER",
        fields |-> <<Field("payload", "i64")>>],
       [name |-> "LoginStart", packetID |-> 0, state |-> "LOGIN", direction |-> "SERVER",
        fields |-> <<Field("name", "String")>>],
       [name |-> "KeepAlive", packetID |-> 128, state |-> "PLAY", direction |-> "BIDIRECTIONAL",
        fields |-> <<Field("id", "i64")>>] >>

\* the schema of the variant p
SchemaOf(p) == Registry[CHOOSE k \in 1..Len(Registry) : Registry[k].name = p.name]

\* Packet::packet_id, Packet::state, Packet::direction
Packet_packet_id(p) == IntToI32(SchemaOf(p).packetID)
Packet_state(p) == SchemaOf(p).state
Packet_direction(p) == SchemaOf(p).direction

\* $name_body::mc_serialize: the fields in declared order
RECURSIVE Body_mc_serialize(_, _, _)
Body_mc_serialize(fields, body, k) ==
    IF k > Len(fields) THEN <<>>
    ELSE SerializeField(fields[k].t, body[fields[k].field])
         \o Body_mc_serialize(fields, body, k + 1)

\* $name_body::mc_deserialize: the fields in declared order, `?` on each
RECURSIVE Body_mc_deserialize(_, _, _, _, _)
Body_mc_deserialize(fields, k, data, idx, acc) ==
    IF k > Len(fields) THEN OkAt(acc, idx)
    ELSE LET r == DeserializeField(fields[k].t, data, idx)
         IN  IF ~r.ok THEN r
             ELSE Body_mc_deserialize(fields, k + 1, data, r.idx,
                                      acc @@ (fields[k].field :> r.val))

\* impl McSerialize for Packet, with the frame length left without the id bytes
Packet_mc_serialize_shortlen(p) ==
    LET length_serializer == Body_mc_serialize(SchemaOf(p).fields, p.body, 1)
        bytes == VarInt_to_bytes(Packet_packet_id(p))
    IN  merge(VarInt_mc_serialize(IntToI32(Len(length_serializer)))
                  \o VecU8_mc_serialize(bytes), length_serializer)

\* impl McSerialize for Packet
Packet_mc_serialize(p) ==
    LET length_serializer == Body_mc_serialize(SchemaOf(p).fields, p.body, 1)
        packet_id == Packet_packet_id(p)
        bytes == VarInt_to_bytes(packet_id)
    IN  merge(VarInt_mc_serialize(IntToI32(Len(length_serializer) + Len(bytes)))
                  \o VecU8_mc_serialize(bytes), length_serializer)

\* an if-chain that matches the id without looking at the direction
RECURSIVE DispatchAnyDirection(_, _, _, _, _, _)
DispatchAnyDirection(k, sub, idx, packet_id, state, packet_direction) ==
    IF k > Len(Registry)
    THEN Err("Could not find matching type.")
    ELSE LET s == Registry[k]
         IN  IF s.state = state /\ I32ToInt(packet_id) = s.packetID
             THEN LET a == Body_mc_deserialize(s.fields, 1, sub, idx, <<>>)
                  IN  IF a.ok THEN Ok([name |-> s.name, body |-> a.val])
                      ELSE DispatchAnyDirection(k + 1, sub, idx, packet_id, state,
                                                packet_direction)
             ELSE DispatchAnyDirection(k + 1, sub, idx, packet_id, state, packet_direction)

\* an if-chain that matches direction and id without looking at the state
RECURSIVE DispatchAnyState(_, _, _, _, _, _)
DispatchAnyState(k, sub, idx, packet_id, state, packet_direction) ==
    IF k > Len(Registry)
    THEN Err("Could not find matching type.")
    ELSE LET s == Registry[k]
         IN  IF s.direction = packet_direction /\ I32ToInt(packet_id) = s.packetID
             THEN LET a == Body_mc_deserialize(s.fields, 1, sub, idx, <<>>)
                  IN  IF a.ok THEN Ok([name |-> s.name, body |-> a.val])
                      ELSE DispatchAnyState(k + 1, sub, idx, packet_id, state,
                                            packet_direction)
             ELSE DispatchAnyState(k + 1, sub, idx, packet_id, state, packet_direction)

\* the generated if-chain of deserialize_state from schema k on: the first
\* schema of (state, direction) whose literal matches the id decodes the body;
\* a failed body decode falls out of the match and the chain goes on
RECURSIVE Dispatch(_, _, _, _, _, _)
Dispatch(k, sub, idx, packet_id, state, packet_direction) ==
    IF k > Len(Registry)
    THEN Err("Could not find matching type.")
    ELSE LET s == Registry[k]
         IN  IF s.state = state /\ s.direction = packet_direction
                /\ I32ToInt(packet_id) = s.packetID
             THEN LET a == Body_mc_deserialize(s.fields, 1, sub, idx, <<>>)
                  IN  IF a.ok THEN Ok([name |-> s.name, body |-> a.val])
                      ELSE Err("Could not find matching type.")
             ELSE Dispatch(k + 1, sub, idx, packet_id, state, packet_direction)

\* deserialize_state, lines 185-190: the packet with the parent cursor's index
\* after the frame, or the error of the if-chain
deserialize_state_result(r, idx) == IF r.ok THEN OkAt(r.val, idx) ELSE r

\* a deserialize_state that leaves the parent cursor where the body decoder
\* stopped reading
deserialize_state_id_consumed(sub, packet_id, state, packet_direction) ==
    IF ~packet_id.ok THEN packet_id
    ELSE LET r == Dispatch(1, sub.val, packet_id.idx, packet_id.val, state, packet_direction)
         IN  IF ~r.ok THEN r
             ELSE OkAt(r.val,
                       (sub.idx - Len(sub.val))
                       + Body_mc_deserialize(SchemaOf(r.val).fields, 1, sub.val,
                                             packet_id.idx, <<>>).idx - 1)

\* deserialize_state, lines 164-183: the id read from the frame's cursor, then
\* the if-chain
deserialize_state_id(sub, packet_id, state, packet_direction) ==
    IF ~packet_id.ok THEN packet_id
    ELSE deserialize_state_result(
             Dispatch(1, sub.val, packet_id.idx, packet_id.val, state, packet_direction),
             sub.idx)

\* deserialize_state, lines 161-163: the frame's cursor, cut out of the parent
deserialize_state_sub(sub, state, packet_direction) ==
    IF ~sub.ok THEN sub
    ELSE deserialize_state_id(sub, VarInt_mc_deserialize(sub.val, 1), state, packet_direction)

\* deserialize_state, line 160: the frame length
deserialize_state_length(data, length, state, packet_direction) ==
    IF ~length.ok THEN length
    ELSE deserialize_state_sub(
             sub_deserializer_length(data, length.idx, I32ToInt(length.val)),
             state, packet_direction)

\* impl StateBasedDeserializer for Packet: the packet and the parent cursor's
\* index after the frame, or the error
Packet_deserialize_state(data, idx, state, packet_direction) ==
    deserialize_state_length(data, VarInt_mc_deserialize(data, idx), state, packet_direction)

\* ---------------------------------------------------------------- NBT: tags

\* enum NbtTag: the variant and what it carries; the numbers are bit patterns
\* of the variant's width, a string is its bytes, a list is an NbtList
NbtTag(variant, value) == [variant |-> variant, value |-> value]
NbtEnd == NbtTag("End", <<>>)
NbtByte(n) == NbtTag("Byte", NatBits(n, 8))
NbtShort(n) == NbtTag("Short", NatBits(n, 16))
NbtString(bytes) == NbtTag("String", bytes)

\* NbtTag::get_type_id
NbtTag_get_type_id(tag) ==
    CASE tag.variant = "End" -> 0
      [] tag.variant = "Byte" -> 1
      [] tag.variant = "Short" -> 2
      [] tag.variant = "Int" -> 3
      [] tag.variant = "Long" -> 4
      [] tag.variant = "Float" -> 5
      [] tag.variant = "Double" -> 6
      [] tag.variant = "ByteArray" -> 7
      [] tag.variant = "String" -> 8
      [] tag.variant = "List" -> 9
      [] tag.variant = "Compound" -> 10
      [] tag.variant = "IntArray" -> 11
      [] tag.variant = "LongArray" -> 12

\* ---------------------------------------------------------------- NBT: serialization

\* u16::mc_serialize and i32::mc_serialize: big-endian
U16_mc_serialize(n) == SerializeField("u16", n)
I32_mc_serialize(v) == BeBytes(v)
\* `x.len() as u16`
LenAsU16(bytes) == Len(bytes) % 65536

\* NbtTag::mc_serialize: no type id; End writes nothing, a string its u16
\* length and its bytes, a number its big-endian bytes; for every other
\* variant the method calls itself on the same tag and never returns
NbtTag_mc_serialize(tag) ==
    CASE tag.variant = "End" -> Ok(<<>>)
      [] tag.variant = "String" -> Ok(U16_mc_serialize(LenAsU16(tag.value)) \o tag.value)
      [] tag.variant \in {"Byte", "Short", "Int", "Long", "Float", "Double"} ->
             Ok(BeBytes(tag.value))
      [] OTHER -> Crash("stack overflow")

\* NbtList::mc_serialize, lines 332-334: the tags from the k-th on, `?` on each
RECURSIVE NbtList_serialize_from(_, _)
NbtList_serialize_from(tags, k) ==
    IF k > Len(tags) THEN Ok(<<>>)
    ELSE LET head == NbtTag_mc_serialize(tags[k])
             rest == NbtList_serialize_from(tags, k + 1)
         IN  IF ~head.ok THEN head
             ELSE IF ~rest.ok THEN rest
             ELSE Ok(head.val \o rest.val)

\* NbtList::mc_serialize: the length as i32, then the tags
NbtList_mc_serialize(tags) ==
    LET body == NbtList_serialize_from(tags, 1)
    IN  IF ~body.ok THEN body
        ELSE Ok(I32_mc_serialize(IntToI32(Len(tags))) \o body.val)

\* NbtCompound::serialize_tags, lines 228-233: the entries from the k-th on
RECURSIVE NbtCompound_serialize_from(_, _)
NbtCompound_serialize_from(entries, k) ==
    IF k > Len(entries) THEN Ok(<<>>)
    ELSE LET payload == NbtTag_mc_serialize(entries[k].value)
             rest == NbtCompound_serialize_from(entries, k + 1)
         IN  IF ~payload.ok THEN payload
             ELSE IF ~rest.ok THEN rest
             ELSE Ok(<<NbtTag_get_type_id(entries[k].value)>>
                     \o U16_mc_serialize(LenAsU16(entries[k].key)) \o entries[k].key
                     \o payload.val \o rest.val)

\* NbtCompound::serialize_tags: the entries in the order of the map, then the
\* end tag
NbtCompound_serialize_tags(entries) ==
    LET body == NbtCompound_serialize_from(entries, 1)
    IN  IF ~body.ok THEN body ELSE Ok(body.val \o <<0>>)

\* NbtCompound::mc_serialize: the compound tag, the root name, the entries
NbtCompound_mc_serialize(root, entries) ==
    LET tags == NbtCompound_serialize_tags(entries)
    IN  IF ~tags.ok THEN tags
        ELSE Ok(<<10>> \o U16_mc_serialize(LenAsU16(root)) \o root \o tags.val)

\* NbtCompound::mc_serialize_network: the compound tag and the entries
NbtCompound_mc_serialize_network(entries) ==
    LET tags == NbtCompound_serialize_tags(entries)
    IN  IF ~tags.ok THEN tags ELSE Ok(<<10>> \o tags.val)

\* ---------------------------------------------------------------- NBT: deserialization

\* u8::mc_deserialize
U8_mc_deserialize(data, idx) ==
    IF idx > Len(data) THEN Err("InputEnded") ELSE OkAt(data[idx], idx + 1)

\* i8, i16, i32, i64, f32, f64 ::mc_deserialize: n big-endian bytes, as the bit
\* pattern of the number
Fixed_mc_deserialize(n, data, idx) ==
    IF idx + n - 1 > Len(data) THEN Err("InputEnded")
    ELSE OkAt(BeBits(SubSeq(data, idx, idx + n - 1)), idx + n)

\* McDeserializer::slice: the next n bytes
McDeserializer_slice(data, idx, n) ==
    IF idx + n - 1 > Len(data) THEN Err("InputEnded")
    ELSE OkAt(SubSeq(data, idx, idx + n - 1), idx + n)

\* how many bytes from the i-th on start a character and go no further than
\* the character allows: what from_utf8_lossy replaces by one U+FFFD
RECURSIVE Utf8Started(_, _, _)
Utf8Started(bytes, i, k) ==
    IF k < Utf8More(bytes[i]) /\ Utf8More(bytes[i]) < 4
       /\ i + k + 1 <= Len(bytes) /\ Utf8Cont(bytes[i + k + 1])
    THEN Utf8Started(bytes, i, k + 1)
    ELSE k + 1

\* String::from_utf8_lossy(bytes).to_string(), as UTF-8 bytes: a well-formed
\* character is kept, an ill-formed run becomes U+FFFD
RECURSIVE Utf8Lossy(_, _)
Utf8Lossy(bytes, i) ==
    IF i > Len(bytes) THEN <<>>
    ELSE IF Utf8More(bytes[i]) < 4 /\ ~Utf8Cont(bytes[i])
            /\ Utf8Started(bytes, i, 0) = Utf8More(bytes[i]) + 1
    THEN SubSeq(bytes, i, i + Utf8More(bytes[i]))
             \o Utf8Lossy(bytes, i + Utf8More(bytes[i]) + 1)
    ELSE <<239, 191, 189>> \o Utf8Lossy(bytes, i + Utf8Started(bytes, i, 0))

\* NbtByteArray, NbtIntArray, NbtLongArray ::mc_deserialize: an i32 count and
\* count numbers of n bytes each
RECURSIVE NbtArray_elements(_, _, _, _, _)
NbtArray_elements(n, data, idx, count, acc) ==
    IF count <= 0 THEN OkAt(acc, idx)
    ELSE IF idx + n - 1 > Len(data) THEN Err("InputEnded")
    ELSE NbtArray_elements(n, data, idx + n, count - 1,
                           Append(acc, BeBits(SubSeq(data, idx, idx + n - 1))))
NbtArray_counted(n, data, count) ==
    IF ~count.ok THEN count
    ELSE NbtArray_elements(n, data, count.idx, I32ToInt(count.val), <<>>)
NbtArray_mc_deserialize(n, data, idx) ==
    NbtArray_counted(n, data, Fixed_mc_deserialize(4, data, idx))

\* what NbtList::new() builds
NbtList_new == [type_id |-> 0, list |-> <<>>]

\* Ok(NbtTag::$variant(value?))
TagOf(variant, value) ==
    IF ~value.ok THEN value ELSE OkAt(NbtTag(variant, value.val), value.idx)

\* NbtTag::mc_deserialize, lines 137-142: the string of the u16 length
NbtString_sliced(data, len) ==
    IF ~len.ok THEN len
    ELSE LET bytes == McDeserializer_slice(data, len.idx, len.val)
         IN  IF ~bytes.ok THEN bytes
             ELSE OkAt(NbtTag("String", Utf8Lossy(bytes.val, 1)), bytes.idx)

RECURSIVE NbtTag_typed(_, _, _)
RECURSIVE NbtList_elements(_, _, _, _, _)

\* NbtTag::mc_deserialize
NbtTag_mc_deserialize(data, idx) == NbtTag_typed(data, idx, U8_mc_deserialize(data, idx))

\* NbtList::mc_deserialize, lines 344-362, with the type t and the length read
NbtList_counted(data, t, length) ==
    IF ~length.ok THEN length
    ELSE IF t.val = 0 /\ I32ToInt(length.val) > 0
    THEN Err("Type cannot be END when length is positive")
    ELSE NbtList_elements(data, length.idx, t.val, I32ToInt(length.val), NbtList_new)

\* NbtList::mc_deserialize, lines 341-342
NbtList_typed(data, t) ==
    IF ~t.ok THEN t ELSE NbtList_counted(data, t, Fixed_mc_deserialize(4, data, t.idx))

\* NbtList::mc_deserialize
NbtList_mc_deserialize(data, idx) == NbtList_typed(data, U8_mc_deserialize(data, idx))

\* NbtList::mc_deserialize, lines 351-359: one turn of the loop with the tag read
NbtList_element(data, t, remaining, acc, tag) ==
    IF ~tag.ok THEN tag
    ELSE IF NbtTag_get_type_id(tag.val) # t
    THEN Err("Type must be the same as the type for the list")
    ELSE IF NbtTag_get_type_id(tag.val) # acc.type_id
    THEN Err("Could not push tag to list")
    ELSE NbtList_elements(data, tag.idx, t, remaining - 1,
                          [acc EXCEPT !.list = Append(acc.list, tag.val)])

\* NbtList::mc_deserialize, lines 350-362: the loop, remaining turns to go
NbtList_elements(data, idx, t, remaining, acc) ==
    IF remaining <= 0 THEN OkAt(acc, idx)
    ELSE NbtList_element(data, t, remaining, acc,
                         NbtTag_typed(data, idx, U8_mc_deserialize(data, idx)))

\* NbtTag::mc_deserialize, lines 127-163, with the type byte read
NbtTag_typed(data, idx, ty) ==
    IF ~ty.ok THEN ty
    ELSE CASE ty.val = 0 -> OkAt(NbtEnd, ty.idx)
           [] ty.val = 1 -> TagOf("Byte", Fixed_mc_deserialize(1, data, ty.idx))
           [] ty.val = 2 -> TagOf("Short", Fixed_mc_deserialize(2, data, ty.idx))
           [] ty.val = 3 -> TagOf("Int", Fixed_mc_deserialize(4, data, ty.idx))
           [] ty.val = 4 -> TagOf("Long", Fixed_mc_deserialize(8, data, ty.idx))
           [] ty.val = 5 -> TagOf("Float", Fixed_mc_deserialize(4, data, ty.idx))
           [] ty.val = 6 -> TagOf("Double", Fixed_mc_deserialize(8, data, ty.idx))
           [] ty.val = 8 ->
                  NbtString_sliced(data, DeserializeField("u16", data, ty.idx))
           [] ty.val = 7 -> TagOf("ByteArray", NbtArray_mc_deserialize(1, data, ty.idx))
           [] ty.val = 11 -> TagOf("IntArray", NbtArray_mc_deserialize(4, data, ty.idx))
           [] ty.val = 12 -> TagOf("LongArray", NbtArray_mc_deserialize(8, data, ty.idx))
           [] ty.val = 9 -> TagOf("List", NbtList_mc_deserialize(data, ty.idx))
           [] ty.val = 10 -> Crash("not yet implemented")
           [] OTHER -> Err("Could not identify tag type")

\* NbtCompound::mc_deserialize: the type byte is read, then todo!()
NbtCompound_mc_deserialize(data, idx) ==
    LET t == U8_mc_deserialize(data, idx)
    IN  IF ~t.ok THEN t ELSE Crash("not yet implemented")

\* impl From<Packet> for $name_body: the body of the variant, a panic for a
\* packet of another variant
Body_from_Packet(name_body, p) ==
    IF p.name = name_body THEN Ok(p.body) ELSE Crash("Invalid conversion")

\* ---------------------------------------------------------------- codec runs

\* i32 inputs: around every power of two and its negation, and the two extremes
I32Samples ==
    UNION {{Pow2(k) + d, Pow2(k) - d, (-Pow2(k)) + d, (-Pow2(k)) - d} :
               k \in 0..30, d \in 0..SampleSpread}
    \cup {2147483647 - d : d \in 0..SampleSpread}
    \cup {((-2147483647) - 1) + d : d \in 0..SampleSpread}
    \cup {25565, 2097151, 758}

I32Inputs == {IntToI32(n) : n \in I32Samples}

\* i64 patterns: bit k alone, the k low bits, both shifted by a small amount
OneBit64(k) == [i \in 1..64 |-> IF i = k + 1 THEN 1 ELSE 0]
LowOnes64(k) == [i \in 1..64 |-> IF i <= k THEN 1 ELSE 0]

\* i64 inputs: every i32 input sign-extended, the patterns above and their
\* complements (so i64::MIN, i64::MAX, -1 and 0 are among them)
I64Inputs ==
    {I32ToI64(b) : b \in I32Inputs}
    \cup {OneBit64(k) : k \in 0..63} \cup {BvNot(OneBit64(k)) : k \in 0..63}
    \cup {LowOnes64(k) : k \in 0..64} \cup {BvNot(LowOnes64(k)) : k \in 0..64}
    \cup {BvOr(OneBit64(k), LowOnes64(d)) : k \in 0..63, d \in 0..SampleSpread}

\* the byte strings of the unit tests of var_types.rs
VarIntVectors ==
    {<<221, 199, 1>>, <<255, 255, 127>>, <<255, 255, 255, 255, 15>>,
     <<128, 128, 128, 128, 8>>}
VarLongVectors ==
    {<<255, 1>>, <<255, 255, 255, 255, 7>>,
     <<255, 255, 255, 255, 255, 255, 255, 255, 255, 1>>,
     <<128, 128, 128, 128, 248, 255, 255, 255, 255, 1>>}

\* raw byte strings for from_slice: a run of n bytes with the continuation bit
\* (all alike, or one of them different), followed by nothing or by one byte
\* without it
ContinuationRuns(n) ==
    {[i \in 1..n |-> c] : c \in {128, 129, 255}}
    \cup {[i \in 1..n |-> IF i = j THEN 255 ELSE 128] : j \in 1..n}
RawBytes(maxLen) ==
    {run \o tail : run \in UNION {ContinuationRuns(n) : n \in 0..(maxLen + ExtraBytes)},
                   tail \in {<<>>, <<0>>, <<1>>, <<127>>}}

\* strings, as UTF-8 bytes: empty, "localhost", "{}", a two-byte character, and
\* one long enough for a two-byte length prefix
Localhost == <<108, 111, 99, 97, 108, 104, 111, 115, 116>>
LongString == [i \in 1..LongStringLen |-> 97]
StringSamples == {<<>>, Localhost, <<123, 125>>, <<195, 169>>, LongString}

I64Samples ==
    {ZeroLong, BvNot(ZeroLong), OneBit64(63), BvNot(OneBit64(63)), NatBits(255, 64),
     I32ToI64(IntToI32(-129))}

\* packets of every variant of the registry
PacketInputs ==
    {[name |-> "Handshaking",
      body |-> [protocol_version |-> IntToI32(v), server_address |-> a, port |-> pt,
                next_state |-> IntToI32(n)]] :
         v \in {758, 0, -1}, a \in {<<>>, Localhost, LongString},
         pt \in {0, 25565, 65535}, n \in {1, 2}}
    \cup {[name |-> "StatusResponse", body |-> [response |-> r]] : r \in StringSamples}
    \cup {[name |-> "PingResponse", body |-> [payload |-> x]] : x \in I64Samples}
    \cup {[name |-> "StatusRequest", body |-> <<>>]}
    \cup {[name |-> "PingRequest", body |-> [payload |-> x]] : x \in I64Samples}
    \cup {[name |-> "LoginStart", body |-> [name |-> r]] : r \in StringSamples}
    \cup {[name |-> "KeepAlive", body |-> [id |-> x]] : x \in I64Samples}

\* compounds: the one of the NBT test (foo = 123, bar = -3.6f32 under
\* "root-tag"), an empty one, one with a byte, a string and an empty list
RootTag == <<114, 111, 111, 116, 45, 116, 97, 103>>
Entry(key, value) == [key |-> key, value |-> value]
NbtCompound(root, entries) == [root_name |-> root, map |-> entries]
NbtCompoundInputs ==
    {NbtCompound(RootTag, <<Entry(<<102, 111, 111>>, NbtTag("Int", IntToI32(123))),
                            Entry(<<98, 97, 114>>,
                                  NbtTag("Float", BeBits(<<192, 102, 102, 102>>)))>>),
     NbtCompound(<<>>, <<>>),
     NbtCompound(RootTag, <<>>),
     NbtCompound(<<>>, <<Entry(<<97>>, NbtByte(255)), Entry(<<98>>, NbtString(<<104, 105>>))>>),
     NbtCompound(<<>>, <<Entry(<<108>>, NbtTag("List", NbtList_new))>>)}

\* the bytes handed to NbtTag::mc_deserialize: a type byte of every kind, with
\* the payload whole, cut short or missing
NbtTagInputs ==
    {<<>>, <<0>>, <<1>>, <<1, 255>>, <<2, 0>>, <<2, 1, 2>>, <<3, 0, 0, 0, 123>>,
     <<4, 0, 0, 0, 0, 0, 0, 0, 1>>, <<5, 192, 102, 102, 102>>, <<6, 0, 0, 0, 0, 0, 0, 0>>,
     <<7, 0, 0, 0, 2, 1, 2>>, <<7, 0, 0, 0, 2, 1>>,
     <<8, 0, 2, 104, 105>>, <<8, 0, 2, 104>>, <<8, 0, 3, 104, 255, 105>>, <<8, 0>>,
     <<9, 0, 0, 0, 0, 0>>, <<9, 0, 0, 0, 0, 1>>, <<9, 1, 0, 0, 0, 0>>,
     <<9, 1, 0, 0, 0, 1, 1, 7>>, <<9, 1, 0, 0, 0, 1, 2, 0, 7>>,
     <<9, 10, 0, 0, 0, 1, 10>>, <<9, 9>>,
     <<10>>, <<10, 0, 0, 0>>,
     <<11, 0, 0, 0, 1, 0, 0, 0, 5>>, <<12, 0, 0, 0, 0>>, <<13>>, <<255, 1>>}

\* tags of every variant, for NbtTag::mc_serialize; an array is its numbers.
\* A codec run on one of them holds its number in this list.
NbtTagValues ==
    <<NbtEnd, NbtByte(255), NbtShort(258), NbtTag("Int", IntToI32(123)),
      NbtTag("Long", I32ToI64(IntToI32(-2))), NbtTag("Float", BeBits(<<192, 102, 102, 102>>)),
      NbtTag("Double", BeBits(<<64, 9, 33, 251, 84, 68, 45, 24>>)),
      NbtString(<<>>), NbtString(<<104, 105>>),
      NbtTag("ByteArray", <<NatBits(1, 8), NatBits(2, 8)>>), NbtTag("ByteArray", <<>>),
      NbtTag("List", NbtList_new),
      NbtTag("List", [type_id |-> 1, list |-> <<NbtByte(1), NbtByte(2)>>]),
      NbtTag("Compound", NbtCompound(<<>>, <<>>)),
      NbtTag("Compound", NbtCompound(<<>>, <<Entry(<<97>>, NbtByte(1))>>)),
      NbtTag("IntArray", <<IntToI32(5)>>), NbtTag("LongArray", <<>>)>>

\* a packet and the body type it is converted into
IntoBodyInputs ==
    {[name_body |-> n, packet |-> p] :
         n \in {"Handshaking", "StatusRequest"},
         p \in {q \in PacketInputs : q.name \in {"Handshaking", "StatusRequest", "PingRequest"}}}

\* frames handed to deserialize_state: the VarInt of a declared length, the
\* VarInt of an id, body bytes and the bytes that follow on the wire. The bodies
\* are whole, cut short, too long or malformed for the schemas of their id; the
\* declared length is that of id and body, one less, one more, zero, the largest
\* frame length, one more than it, or negative.
\* the largest length a three-byte VarInt holds, the protocol's frame length cap
MAX_FRAME_LENGTH == Pow2(21) - 1
FrameContents ==
    {[id |-> 0, body |-> b] :
         b \in {<<>>, <<0>>, <<2, 123, 125>>, <<1, 255>>, <<3, 104>>,
                <<255, 255, 255, 255, 255, 1>>,
                <<246, 5, 9>> \o Localhost \o <<99, 221, 1>>}}
    \cup {[id |-> 1, body |-> b] :
            b \in {<<0, 0, 0, 0, 0, 0, 0, 7>>, <<0, 0, 0, 7>>, <<0, 0, 0, 0, 0, 0, 0, 7, 9>>}}
    \cup {[id |-> 5, body |-> <<0>>], [id |-> 128, body |-> <<0, 0, 0, 0, 0, 0, 0, 7>>]}
FrameTails == {<<>>, <<1, 0>>, <<9>>}
FrameLengths(c) ==
    LET exact == Len(VarInt_to_bytes(IntToI32(c.id))) + Len(c.body)
    IN  {exact, exact - 1, exact + 1, 0, MAX_FRAME_LENGTH, MAX_FRAME_LENGTH + 1, -1}
FrameInputs ==
    UNION {{[length |-> l, id |-> c.id, body |-> c.body, tail |-> t, state |-> st,
             direction |-> d] :
                l \in FrameLengths(c), t \in FrameTails, st \in PacketStates,
                d \in PacketDirections} : c \in FrameContents}
\* the bytes of a frame input on the wire
FrameData(f) ==
    VarInt_to_bytes(IntToI32(f.length)) \o VarInt_to_bytes(IntToI32(f.id)) \o f.body \o f.tail

CodecInputs(kind) ==
    CASE kind = "VarInt" -> I32Inputs
      [] kind = "VarLong" -> I64Inputs
      [] kind = "Packet" -> PacketInputs
      [] kind = "VarIntBytes" -> VarIntVectors
      [] kind = "VarLongBytes" -> VarLongVectors
      [] kind = "VarIntRaw" -> RawBytes(VARINT_MAX_BYTES)
      [] kind = "VarLongRaw" -> RawBytes(VARLONG_MAX_BYTES)
      [] kind = "NbtCompound" -> NbtCompoundInputs
      [] kind = "NbtTagBytes" -> NbtTagInputs
      [] kind = "IntoBody" -> IntoBodyInputs
      [] kind = "NbtCompoundNetwork" -> NbtCompoundInputs
      [] kind = "NbtTag" -> 1..Len(NbtTagValues)
      [] kind = "Frame" -> FrameInputs
      [] kind = "StateId" -> 0..255
      [] kind = "State" -> PacketStates

CodecKinds == {"VarInt", "VarLong", "VarIntBytes", "VarLongBytes", "VarIntRaw", "VarLongRaw",
               "Packet", "NbtCompound", "NbtTagBytes", "IntoBody", "StateId", "State", "Frame",
               "NbtCompoundNetwork", "NbtTag"}

\* an entry of received
Yield(packet, state) == [packet |-> packet, state |-> state]

\* the record of a receive_packet call: its result, the socket reads it made
\* and the bytes it took from the socket
Received(res, nreads, taken) == [res |-> res, reads |-> nreads, taken |-> taken]

\* the connection of a codec run: none is open
ConnIdle ==
    /\ sent = <<>> /\ offset = 0 /\ sock = "open" /\ shutdown = FALSE
    /\ buffer = <<>> /\ packet_state = "HANDSHAKING"
    /\ received = <<>> /\ last = Received(None, 0, 0)
    /\ compression_threshold = None /\ peeked = None /\ out = <<>> /\ sends = <<>>
    /\ requested = "HANDSHAKING" /\ frame = <<>>

\* the NBT values of a connection run or a codec run: a new list, a new compound
NbtIdle ==
    /\ type_id = 0 /\ list = <<>> /\ list_result = None
    /\ map = <<>> /\ root_name = <<>> /\ order = <<>>

\* the codec run of a connection run: none
CodecIdle ==
    /\ cKind = "none" /\ cIn = <<>> /\ cStage = "start" /\ cBytes = <<>> /\ cRes = None

InitCodec ==
    /\ cKind \in CodecKinds
    /\ cIn \in CodecInputs(cKind)
    /\ cStage = "start"
    /\ cBytes = <<>>
    /\ cRes = None
    /\ ConnIdle
    /\ NbtIdle

\* VarInt(n).to_bytes()
EncodeVarInt ==
    /\ cKind = "VarInt" /\ cStage = "start"
    /\ cBytes' = VarInt_to_bytes(cIn)
    /\ cStage' = "encoded"
    /\ UNCHANGED <<cKind, cIn, cRes, connVars, nbtVars>>

\* VarInt::from_slice on the bytes just written
DecodeVarInt ==
    /\ cKind = "VarInt" /\ cStage = "encoded"
    /\ cRes' = VarInt_from_slice(cBytes)
    /\ cStage' = "decoded"
    /\ UNCHANGED <<cKind, cIn, cBytes, connVars, nbtVars>>

\* VarLong(n).to_bytes()
EncodeVarLong ==
    /\ cKind = "VarLong" /\ cStage = "start"
    /\ cBytes' = VarLong_to_bytes(cIn)
    /\ cStage' = "encoded"
    /\ UNCHANGED <<cKind, cIn, cRes, connVars, nbtVars>>

\* VarLong::from_slice on the bytes just written
DecodeVarLong ==
    /\ cKind = "VarLong" /\ cStage = "encoded"
    /\ cRes' = VarLong_from_slice(cBytes)
    /\ cStage' = "decoded"
    /\ UNCHANGED <<cKind, cIn, cBytes, connVars, nbtVars>>

\* tests::basic_varint_from_slice: VarInt::from_slice(&[..])
SliceVarInt ==
    /\ cKind \in {"VarIntBytes", "VarIntRaw"} /\ cStage = "start"
    /\ cRes' = VarInt_from_slice(cIn)
    /\ cStage' = "decoded"
    /\ UNCHANGED <<cKind, cIn, cBytes, connVars, nbtVars>>

\* tests::basic_varint_writing: VarInt::from_slice(&[..]).unwrap().to_bytes()
RewriteVarInt ==
    /\ cKind = "VarIntBytes" /\ cStage = "decoded" /\ cRes.ok
    /\ cBytes' = VarInt_to_bytes(cRes.val)
    /\ cStage' = "reencoded"
    /\ UNCHANGED <<cKind, cIn, cRes, connVars, nbtVars>>

\* tests::basic_varlong_from_slice
SliceVarLong ==
    /\ cKind \in {"VarLongBytes", "VarLongRaw"} /\ cStage = "start"
    /\ cRes' = VarLong_from_slice(cIn)
    /\ cStage' = "decoded"
    /\ UNCHANGED <<cKind, cIn, cBytes, connVars, nbtVars>>

\* tests::basic_varlong_writing
RewriteVarLong ==
    /\ cKind = "VarLongBytes" /\ cStage = "decoded" /\ cRes.ok
    /\ cBytes' = VarLong_to_bytes(cRes.val)
    /\ cStage' = "reencoded"
    /\ UNCHANGED <<cKind, cIn, cRes, connVars, nbtVars>>

\* p.mc_serialize(&mut serializer) on an empty serializer
EncodePacket ==
    /\ cKind = "Packet" /\ cStage = "start"
    /\ cBytes' = Packet_mc_serialize(cIn)
    /\ cStage' = "encoded"
    /\ UNCHANGED <<cKind, cIn, cRes, connVars, nbtVars>>

\* Packet::deserialize_state on a cursor over the bytes just written, under the
\* packet's own state and direction
DecodePacket ==
    /\ cKind = "Packet" /\ cStage = "encoded"
    /\ cRes' = Packet_deserialize_state(cBytes, 1, Packet_state(cIn), Packet_direction(cIn))
    /\ cStage' = "decoded"
    /\ UNCHANGED <<cKind, cIn, cBytes, connVars, nbtVars>>

\* NbtCompound::mc_serialize into a new serializer
EncodeNbtCompound ==
    /\ cKind = "NbtCompound" /\ cStage = "start"
    /\ \E written \in {NbtCompound_mc_serialize(cIn.root_name, cIn.map)} :
           IF written.ok
           THEN cBytes' = written.val /\ cStage' = "encoded" /\ UNCHANGED cRes
           ELSE cRes' = written /\ cStage' = "failed" /\ UNCHANGED cBytes
    /\ UNCHANGED <<cKind, cIn, connVars, nbtVars>>

\* NbtCompound::mc_serialize_network into a new serializer
EncodeNbtCompoundNetwork ==
    /\ cKind = "NbtCompoundNetwork" /\ cStage = "start"
    /\ \E written \in {NbtCompound_mc_serialize_network(cIn.map)} :
           IF written.ok
           THEN cBytes' = written.val /\ cStage' = "encoded" /\ UNCHANGED cRes
           ELSE cRes' = written /\ cStage' = "failed" /\ UNCHANGED cBytes
    /\ UNCHANGED <<cKind, cIn, connVars, nbtVars>>

\* NbtTag::mc_serialize into a new serializer: the call returns Ok(()) with
\* the bytes written, or it does not return
EncodeNbtTag ==
    /\ cKind = "NbtTag" /\ cStage = "start"
    /\ \E written \in {NbtTag_mc_serialize(NbtTagValues[cIn])} :
           /\ cRes' = written
           /\ IF written.ok
              THEN cBytes' = written.val /\ cStage' = "encoded"
              ELSE cStage' = "failed" /\ UNCHANGED cBytes
    /\ UNCHANGED <<cKind, cIn, connVars, nbtVars>>

\* NbtCompound::mc_deserialize on a cursor over the bytes just written
DecodeNbtCompound ==
    /\ cKind = "NbtCompound" /\ cStage = "encoded"
    /\ cRes' = NbtCompound_mc_deserialize(cBytes, 1)
    /\ cStage' = "decoded"
    /\ UNCHANGED <<cKind, cIn, cBytes, connVars, nbtVars>>

\* NbtTag::mc_deserialize on a cursor over the input bytes
DecodeNbtTag ==
    /\ cKind = "NbtTagBytes" /\ cStage = "start"
    /\ cRes' = NbtTag_mc_deserialize(cIn, 1)
    /\ cStage' = "decoded"
    /\ UNCHANGED <<cKind, cIn, cBytes, connVars, nbtVars>>

\* $name_body::from(packet)
ConvertPacket ==
    /\ cKind = "IntoBody" /\ cStage = "start"
    /\ cRes' = Body_from_Packet(cIn.name_body, cIn.packet)
    /\ cStage' = "converted"
    /\ UNCHANGED <<cKind, cIn, cBytes, connVars, nbtVars>>

\* Packet::deserialize_state on a cursor over the frame's bytes and what follows
\* them, as receive_packet calls it on its residual buffer: the caller keeps
\* collect_remaining() when the call succeeds
DecodeFrame ==
    /\ cKind = "Frame" /\ cStage = "start"
    /\ \E packet \in {Packet_deserialize_state(FrameData(cIn), 1, cIn.state, cIn.direction)} :
           /\ cRes' = packet
           /\ cBytes' = IF packet.ok THEN collect_remaining(FrameData(cIn), packet.idx)
                        ELSE cBytes
    /\ cStage' = "decoded"
    /\ UNCHANGED <<cKind, cIn, connVars, nbtVars>>

\* the next call, on a cursor over the bytes kept by the call before
DecodeNextFrame ==
    /\ cKind = "Frame" /\ cStage = "decoded" /\ cRes.ok /\ cBytes # <<>>
    /\ \E packet \in {Packet_deserialize_state(cBytes, 1, cIn.state, cIn.direction)} :
           /\ cRes' = packet
           /\ cBytes' = IF packet.ok THEN collect_remaining(cBytes, packet.idx) ELSE cBytes
    /\ cStage' = "next"
    /\ UNCHANGED <<cKind, cIn, connVars, nbtVars>>

\* PacketState::from_id(id) on a byte
StateFromId ==
    /\ cKind = "StateId" /\ cStage = "start"
    /\ cRes' = PacketState_from_id(cIn)
    /\ cStage' = "decoded"
    /\ UNCHANGED <<cKind, cIn, cBytes, connVars, nbtVars>>

\* state.get_id()
StateGetId ==
    /\ cKind = "State" /\ cStage = "start"
    /\ cRes' = PacketState_get_id(cIn)
    /\ cStage' = "encoded"
    /\ UNCHANGED <<cKind, cIn, cBytes, connVars, nbtVars>>

\* PacketState::from_id(state.get_id().unwrap()), the id kept in cBytes
StateOfItsId ==
    /\ cKind = "State" /\ cStage = "encoded" /\ cRes.ok
    /\ cBytes' = <<cRes.val>>
    /\ cRes' = PacketState_from_id(cRes.val)
    /\ cStage' = "decoded"
    /\ UNCHANGED <<cKind, cIn, connVars, nbtVars>>

NextCodec ==
    \/ EncodePacket \/ DecodePacket
    \/ EncodeVarInt \/ DecodeVarInt
    \/ EncodeVarLong \/ DecodeVarLong
    \/ SliceVarInt \/ RewriteVarInt
    \/ SliceVarLong \/ RewriteVarLong
    \/ EncodeNbtCompound \/ DecodeNbtCompound
    \/ EncodeNbtCompoundNetwork \/ EncodeNbtTag
    \/ DecodeNbtTag
    \/ ConvertPacket
    \/ StateFromId \/ StateGetId \/ StateOfItsId
    \/ DecodeFrame \/ DecodeNextFrame

SpecCodec == InitCodec /\ [][NextCodec]_vars

\* ---------------------------------------------------------------- connection
BUFFER_SIZE == 1024

\* the handshake of the serialize_handshake test
TestHandshake ==
    [name |-> "Handshaking",
     body |-> [protocol_version |-> IntToI32(758), server_address |-> Localhost,
               port |-> 25565, next_state |-> IntToI32(1)]]

\* the handshake of the test with next_state = 2
LoginHandshake ==
    [name |-> "Handshaking",
     body |-> [protocol_version |-> IntToI32(758), server_address |-> Localhost,
               port |-> 25565, next_state |-> IntToI32(2)]]

\* a handshake whose frame fills a read chunk together with the test
\* handshake's frame: 10 bytes of it are not the address
BigHandshake ==
    [name |-> "Handshaking",
     body |-> [protocol_version |-> IntToI32(758),
               server_address |->
                   [i \in 1..(BUFFER_SIZE - Len(Packet_mc_serialize(TestHandshake)) - 10) |-> 97],
               port |-> 25565, next_state |-> IntToI32(1)]]

\* the frames a peer writes: three handshakes, and a well-formed frame of
\* length 2 whose id 5 is registered in no state
FrameKinds == {"H1", "H2", "Big", "U"}
FramePacket(f) ==
    CASE f = "H1" -> TestHandshake
      [] f = "H2" -> LoginHandshake
      [] f = "Big" -> BigHandshake
FrameBytesOf(f) == IF f = "U" THEN <<2, 5, 0>> ELSE Packet_mc_serialize(FramePacket(f))
FrameTable == [f \in FrameKinds |-> FrameBytesOf(f)]
FrameBytes(f) == FrameTable[f]

RECURSIVE SeqsUpTo(_, _)
SeqsUpTo(S, n) ==
    IF n = 0 THEN {<<>>}
    ELSE LET shorter == SeqsUpTo(S, n - 1)
         IN  shorter \cup {Append(q, x) : q \in shorter, x \in S}

\* a small frame followed by more than a read chunk: the first read fills the
\* chunk and the try_read calls find as many bytes as the first frame has
ChunkAndMore == <<"H1", "Big", "H1">>

\* what the peer may write: up to MaxFrames frames, or the frames above
PeerWrites == SeqsUpTo(FrameKinds, MaxFrames) \cup {ChunkAndMore}

\* the byte stream of a sequence of frames, and the offsets at which its frames end
RECURSIVE StreamOf(_)
StreamOf(fs) == IF fs = <<>> THEN <<>> ELSE FrameBytes(Head(fs)) \o StreamOf(Tail(fs))
StreamTable == [fs \in PeerWrites |-> StreamOf(fs)]
RECURSIVE EndOf(_, _)
EndOf(fs, n) == IF n = 0 THEN 0 ELSE EndOf(fs, n - 1) + Len(FrameBytes(fs[n]))
EndsTable == [fs \in PeerWrites |-> {EndOf(fs, n) : n \in 0..Len(fs)}]
Stream == StreamTable[sent]
\* the bytes written by the peer and not yet read from the socket
Wire == SubSeq(Stream, offset + 1, Len(Stream))

\* CraftClient::from_connection: HANDSHAKING, an empty residual buffer; the peer
\* has some frames to write
Init ==
    /\ sent \in (PeerWrites \ {<<>>})
    /\ offset = 0
    /\ sock = "open"
    /\ shutdown = FALSE
    /\ buffer = <<>>
    /\ packet_state = "HANDSHAKING"
    /\ received = <<>>
    /\ last = Received(None, 0, 0)
    /\ compression_threshold = None /\ peeked = None /\ out = <<>> /\ sends = <<>>
    /\ requested = "HANDSHAKING" /\ frame = <<>>
    /\ CodecIdle
    /\ NbtIdle

\* the sizes a socket read of the pending bytes may have: up to the chunk size,
\* ending shortly after a frame boundary or taking all there is
ReadSizes(limit) ==
    LET avail == Len(Stream) - offset
        most == IF avail < limit THEN avail ELSE limit
    IN  {k \in {e + d - offset : e \in EndsTable[sent], d \in 0..MaxSmallRead} \cup {most} :
            k >= 1 /\ k <= most}

\* a receive_packet call touches neither the outbound side nor the settings;
\* a peek made before it is no longer the latest call
ReceiveFrame ==
    /\ peeked' = None
    /\ UNCHANGED <<compression_threshold, out, sends, requested>>

\* a receive_packet that decodes the residual bytes under the state the
\* connection had when they were read from the socket
ReceiveBuffered_ahead ==
    /\ buffer # <<>>
    /\ \E state \in {IF received = <<>> THEN packet_state
                     ELSE received[Len(received)].state} :
       \E packet \in {Packet_deserialize_state(buffer, 1, state, "SERVER")} :
           IF packet.ok
           THEN /\ buffer' = collect_remaining(buffer, packet.idx)
                /\ frame' = SubSeq(buffer, 1, packet.idx - 1)
                /\ received' = Append(received, Yield(packet.val, state))
                /\ last' = Received(Ok(packet.val), 0, 0)
           ELSE /\ last' = Received(Err(packet.err), 0, 0)
                /\ frame' = <<>>
                /\ UNCHANGED <<buffer, received>>
    /\ UNCHANGED <<sent, offset, sock, shutdown, packet_state, codecVars, nbtVars>>
    /\ ReceiveFrame

\* receive_packet, lines 60-65: the residual buffer is not empty
ReceiveBuffered ==
    /\ buffer # <<>>
    /\ \E packet \in {Packet_deserialize_state(buffer, 1, packet_state, "SERVER")} :
           IF packet.ok
           THEN /\ buffer' = collect_remaining(buffer, packet.idx)
                /\ frame' = SubSeq(buffer, 1, packet.idx - 1)
                /\ received' = Append(received, Yield(packet.val, packet_state))
                /\ last' = Received(Ok(packet.val), 0, 0)
           ELSE /\ last' = Received(Err(packet.err), 0, 0)
                /\ frame' = <<>>
                /\ UNCHANGED <<buffer, received>>
    /\ UNCHANGED <<sent, offset, sock, shutdown, packet_state, codecVars, nbtVars>>
    /\ ReceiveFrame

\* receive_packet, lines 68-122: read returns length bytes; a full chunk is
\* followed by try_read calls that take more bytes in all (none when the first
\* try_read finds nothing); agg_length counts what the branch taken adds to it
ReceiveRead(length, more) ==
    /\ buffer = <<>>
    /\ sock # "failed"
    /\ offset' = offset + length + more
    /\ \E aggregate \in {SubSeq(Wire, 1, length + more)},
          agg_length \in {IF length = BUFFER_SIZE THEN more ELSE length},
          nreads \in {IF more = 0 THEN 1 ELSE 1 + ((more + BUFFER_SIZE - 1) \div BUFFER_SIZE)} :
         \E packet \in {Packet_deserialize_state(SubSeq(aggregate, 1, agg_length), 1,
                                                 packet_state, "SERVER")} :
           IF packet.ok
           THEN /\ buffer' = buffer \o collect_remaining(SubSeq(aggregate, 1, agg_length),
                                                         packet.idx)
                /\ frame' = SubSeq(aggregate, 1, packet.idx - 1)
                /\ received' = Append(received, Yield(packet.val, packet_state))
                /\ last' = Received(Ok(packet.val), nreads, length + more)
           ELSE /\ last' = Received(Err(packet.err), nreads, length + more)
                /\ frame' = <<>>
                /\ UNCHANGED <<buffer, received>>
    /\ UNCHANGED <<sent, sock, shutdown, packet_state, codecVars, nbtVars>>
    /\ ReceiveFrame

\* a read of zero bytes that is handed to the decoder like any other
ReceiveClosed_decoded ==
    /\ buffer = <<>>
    /\ offset = Len(Stream) /\ sock = "eof"
    /\ last' = Received(Err(Packet_deserialize_state(<<>>, 1, packet_state, "SERVER").err), 1, 0)
    /\ frame' = <<>>
    /\ UNCHANGED <<sent, offset, sock, shutdown, buffer, packet_state, received, codecVars, nbtVars>>
    /\ ReceiveFrame

\* receive_packet, lines 110-113: the read returns 0, the connection is closed
ReceiveClosed ==
    /\ buffer = <<>>
    /\ offset = Len(Stream) /\ sock = "eof"
    /\ shutdown' = TRUE
    /\ last' = Received(Err("NoDataReceivedError"), 0, 0)
    /\ frame' = <<>>
    /\ UNCHANGED <<sent, offset, sock, buffer, packet_state, received, codecVars, nbtVars>>
    /\ ReceiveFrame

\* receive_packet, lines 73-81: the read fails; a local abort closes the socket
ReceiveIoError(aborted) ==
    /\ buffer = <<>>
    /\ sock' = "failed"
    /\ shutdown' = IF aborted THEN TRUE ELSE shutdown
    /\ last' = Received(Err(IF aborted THEN "ConnectionAbortedLocally" ELSE "IoError"), 0, 0)
    /\ frame' = <<>>
    /\ UNCHANGED <<sent, offset, buffer, packet_state, received, codecVars, nbtVars>>
    /\ ReceiveFrame

\* what the try_read calls after a full first chunk may take in all: nothing,
\* a few bytes, or all that is pending
DrainSizes ==
    LET rest == Len(Stream) - offset - BUFFER_SIZE
    IN  {m \in (0..MaxSmallRead) \cup {rest} : m >= 0 /\ m <= rest}

receive_packet ==
    \/ ReceiveBuffered
    \/ \E length \in ReadSizes(BUFFER_SIZE) :
           length < BUFFER_SIZE /\ ReceiveRead(length, 0)
    \/ \E more \in DrainSizes :
           BUFFER_SIZE \in ReadSizes(BUFFER_SIZE) /\ ReceiveRead(BUFFER_SIZE, more)
    \/ ReceiveClosed
    \/ \E aborted \in BOOLEAN : ReceiveIoError(aborted)

\* a change_state that only leaves HANDSHAKING
change_state_once(state) ==
    /\ packet_state' = (IF packet_state = "HANDSHAKING" THEN state ELSE packet_state)
    /\ requested' = state
    /\ UNCHANGED <<sent, offset, sock, shutdown, buffer, received, last, codecVars, nbtVars>>
    /\ UNCHANGED <<compression_threshold, peeked, out, sends, frame>>

\* change_state
change_state(state) ==
    /\ packet_state' = state
    /\ requested' = state
    /\ UNCHANGED <<sent, offset, sock, shutdown, buffer, received, last, codecVars, nbtVars>>
    /\ UNCHANGED <<compression_threshold, peeked, out, sends, frame>>

\* the peer closes the connection after its last frame; the close shows once
\* every byte before it has been read
PeerClose ==
    /\ sock = "open"
    /\ offset = Len(Stream)
    /\ sock' = "eof"
    /\ UNCHANGED <<sent, offset, shutdown, buffer, packet_state, received, last, codecVars, nbtVars>>
    /\ UNCHANGED <<compression_threshold, peeked, out, sends, requested, frame>>

\* the states the host moves a connection through while it handshakes
HostStates == {"HANDSHAKING", "STATUS", "LOGIN"}

Next ==
    \/ receive_packet
    \/ \E state \in HostStates : change_state(state)
    \/ PeerClose

Spec == Init /\ [][Next]_vars

\* ---------------------------------------------------------------- connection: the whole interface

\* the receiving side of the connection
recvVars == <<sent, offset, sock, buffer, received, last, frame>>

\* the first two VarInts of the data, a mix-up: the id is read where the
\* length is
peek_details_swapped(data) ==
    LET length == VarInt_mc_deserialize(data, 1)
    IN  IF ~length.ok THEN length
        ELSE Ok(<<length.val, length.val>>)

\* peek_next_packet_details, lines 132-134 and 145-147: the first two VarInts
\* of the data, `?` on each
peek_details_id(length, packet_id) ==
    IF ~packet_id.ok THEN packet_id ELSE Ok(<<length.val, packet_id.val>>)
peek_details_length(data, length) ==
    IF ~length.ok THEN length
    ELSE peek_details_id(length, VarInt_mc_deserialize(data, length.idx))
peek_details(data) == peek_details_length(data, VarInt_mc_deserialize(data, 1))

\* peek_next_packet_details, lines 131-135: the residual buffer is not empty
PeekBuffered ==
    /\ buffer # <<>>
    /\ peeked' = peek_details(buffer)
    /\ UNCHANGED <<recvVars, shutdown, packet_state, compression_threshold, out, sends,
                   requested, codecVars, nbtVars>>

\* peek_next_packet_details, lines 138-148: tcp_stream.peek shows the length
\* bytes that have arrived and leaves them in the socket
PeekSocket(length) ==
    /\ buffer = <<>>
    /\ sock # "failed"
    /\ peeked' = peek_details(SubSeq(Wire, 1, length))
    /\ UNCHANGED <<recvVars, shutdown, packet_state, compression_threshold, out, sends,
                   requested, codecVars, nbtVars>>

\* peek_next_packet_details, lines 141-143: tcp_stream.peek returns 0
PeekClosed ==
    /\ buffer = <<>>
    /\ offset = Len(Stream) /\ sock = "eof"
    /\ peeked' = Err("No data received")
    /\ UNCHANGED <<recvVars, shutdown, packet_state, compression_threshold, out, sends,
                   requested, codecVars, nbtVars>>

\* peek_next_packet_details, line 139: tcp_stream.peek fails on a socket that
\* has failed
PeekIoError ==
    /\ buffer = <<>>
    /\ sock = "failed"
    /\ peeked' = Err("IoError")
    /\ UNCHANGED <<recvVars, shutdown, packet_state, compression_threshold, out, sends,
                   requested, codecVars, nbtVars>>

peek_next_packet_details ==
    \/ PeekBuffered
    \/ \E length \in ReadSizes(BUFFER_SIZE) : PeekSocket(length)
    \/ PeekClosed
    \/ PeekIoError

\* a write that hands the socket the first chunk of the output and stops
write_once(output, chunk) ==
    SubSeq(output, 1, IF chunk < Len(output) THEN chunk ELSE Len(output))

\* tcp_stream.write_all: the socket accepts at most chunk bytes per write; the
\* writes are repeated until no byte of the output is left
RECURSIVE write_all(_, _)
write_all(output, chunk) ==
    IF Len(output) <= chunk THEN output
    ELSE SubSeq(output, 1, chunk) \o write_all(SubSeq(output, chunk + 1, Len(output)), chunk)

\* the record of a send_packet call: the packet, the number of bytes accepted
\* by the socket before the call, the result
Sent(packet, at, ok) == [packet |-> packet, at |-> at, ok |-> ok]

\* the packets the host sends, the sizes of the partial writes, and the
\* numbers of bytes a failing write_all has handed to the socket
HostPackets ==
    {[name |-> "StatusResponse", body |-> [response |-> <<123, 125>>]],
     [name |-> "PingResponse", body |-> [payload |-> NatBits(255, 64)]]}
WriteChunks == {1, 7, BUFFER_SIZE}
WriteFailures == {0, 1}

\* send_packet, lines 47-54: the frame is written whole; the connection
\* carries at most MaxFrames frames, both directions together, and the host
\* sends once it has read what the peer wrote
SendWritten(packet, chunk) ==
    /\ Len(sent) + Len(sends) < MaxFrames
    /\ offset = Len(Stream)
    /\ ~shutdown /\ sock # "failed"
    /\ out' = out \o write_all(Packet_mc_serialize(packet), chunk)
    /\ sends' = Append(sends, Sent(packet, Len(out), TRUE))
    /\ UNCHANGED <<recvVars, shutdown, packet_state, compression_threshold, peeked,
                   requested, codecVars, nbtVars>>

\* send_packet, line 53: a write fails after the socket accepted the first
\* accepted bytes; nothing is accepted once the socket is shut down or has
\* failed, and a socket in order fails only after it accepted something
SendFailed(packet, accepted) ==
    /\ Len(sent) + Len(sends) < MaxFrames
    /\ offset = Len(Stream)
    /\ accepted < Len(Packet_mc_serialize(packet))
    /\ (shutdown \/ sock = "failed") <=> accepted = 0
    /\ out' = out \o SubSeq(Packet_mc_serialize(packet), 1, accepted)
    /\ sends' = Append(sends, Sent(packet, Len(out), FALSE))
    /\ UNCHANGED <<recvVars, shutdown, packet_state, compression_threshold, peeked,
                   requested, codecVars, nbtVars>>

send_packet ==
    \/ \E packet \in HostPackets, chunk \in WriteChunks : SendWritten(packet, chunk)
    \/ \E packet \in HostPackets, accepted \in WriteFailures : SendFailed(packet, accepted)

\* the thresholds handed to enable_compression
Thresholds == {None, Ok(256)}

\* enable_compression
enable_compression(threshold) ==
    /\ compression_threshold' = threshold
    /\ UNCHANGED <<recvVars, shutdown, packet_state, peeked, out, sends, requested, codecVars, nbtVars>>

\* close: tcp_stream.shutdown()
close ==
    /\ shutdown' = TRUE
    /\ UNCHANGED <<recvVars, packet_state, compression_threshold, peeked, out, sends,
                   requested, codecVars, nbtVars>>

\* CraftClient::from_connection; the peer has some short frames to write, or
\* none, or a frame that fills a chunk together with the short one after it
InitHost ==
    /\ sent \in PeerWrites
    /\ sent = <<"Big", "H1">> \/ \A i \in 1..Len(sent) : sent[i] \in {"H1", "U"}
    /\ offset = 0
    /\ sock = "open"
    /\ shutdown = FALSE
    /\ buffer = <<>>
    /\ packet_state = "HANDSHAKING"
    /\ received = <<>>
    /\ last = Received(None, 0, 0)
    /\ compression_threshold = None /\ peeked = None /\ out = <<>> /\ sends = <<>>
    /\ requested = "HANDSHAKING" /\ frame = <<>>
    /\ CodecIdle
    /\ NbtIdle

NextHost ==
    \/ receive_packet
    \/ \E state \in HostStates : change_state(state)
    \/ PeerClose
    \/ peek_next_packet_details
    \/ send_packet
    \/ \E threshold \in Thresholds : enable_compression(threshold)
    \/ close

SpecHost == InitHost /\ [][NextHost]_vars

\* ---------------------------------------------------------------- NBT: lists and compounds

\* the tags handed to NbtList::add and NbtList::add_tag
ListTags == {NbtEnd, NbtByte(1), NbtByte(255), NbtShort(2), NbtString(<<104, 105>>)}

\* the fields of the list that a call leaves alone, and everything else
ListCall == UNCHANGED <<map, root_name, order, codecVars, connVars>>

\* NbtList::add: End is refused, the first tag fixes type_id, a tag of another
\* type is refused
NbtList_add(tag) ==
    /\ Len(list) < MaxListLen
    /\ IF NbtTag_get_type_id(tag) = 0
       THEN /\ list_result' = Err("END Tag not allowed in NbtList")
            /\ UNCHANGED <<type_id, list>>
       ELSE IF type_id = 0
       THEN /\ type_id' = NbtTag_get_type_id(tag)
            /\ list' = Append(list, tag)
            /\ list_result' = Ok(<<>>)
       ELSE IF type_id # NbtTag_get_type_id(tag)
       THEN /\ list_result' = Err("Type mismatch in NbtList")
            /\ UNCHANGED <<type_id, list>>
       ELSE /\ list' = Append(list, tag)
            /\ list_result' = Ok(<<>>)
            /\ UNCHANGED type_id
    /\ ListCall

\* NbtList::add_tag: a tag whose type is not type_id is refused
NbtList_add_tag(tag) ==
    /\ Len(list) < MaxListLen
    /\ IF NbtTag_get_type_id(tag) # type_id
       THEN /\ list_result' = Err("Incompatible types")
            /\ UNCHANGED <<type_id, list>>
       ELSE /\ list' = Append(list, tag)
            /\ list_result' = Ok(<<>>)
            /\ UNCHANGED type_id
    /\ ListCall

\* IndexMap::insert: the value of a key that is present is replaced where it
\* is, a new key goes to the end
IndexMap_insert(entries, key, value) ==
    IF \E i \in 1..Len(entries) : entries[i].key = key
    THEN [i \in 1..Len(entries) |->
             IF entries[i].key = key THEN [key |-> key, value |-> value] ELSE entries[i]]
    ELSE Append(entries, [key |-> key, value |-> value])

\* IndexMap::remove, which is swap_remove: the last entry takes the place of
\* the one removed
IndexMap_remove(entries, key) ==
    IF \A i \in 1..Len(entries) : entries[i].key # key THEN entries
    ELSE LET at == CHOOSE i \in 1..Len(entries) : entries[i].key = key
         IN  [i \in 1..(Len(entries) - 1) |->
                 IF i = at THEN entries[Len(entries)] ELSE entries[i]]

\* the names and the tags handed to NbtCompound::add, and the root names
EntryNames == {<<97>>, <<98>>, <<99>>}
EntryTags == {NbtByte(1), NbtShort(2)}
RootNames == {<<>>, <<114>>}

\* the names present, in the order of their insertion: a name added while it
\* is present keeps its place, a name removed leaves the others in theirs
Inserted(names, name) ==
    IF \E i \in 1..Len(names) : names[i] = name THEN names ELSE Append(names, name)
Withdrawn(names, name) == SelectSeq(names, LAMBDA n : n # name)

CompoundCall == UNCHANGED <<type_id, list, list_result, codecVars, connVars>>

\* NbtCompound::add
NbtCompound_add(name, tag) ==
    /\ map' = IndexMap_insert(map, name, tag)
    /\ order' = Inserted(order, name)
    /\ UNCHANGED root_name
    /\ CompoundCall

\* NbtCompound::remove
NbtCompound_remove(name) ==
    /\ map' = IndexMap_remove(map, name)
    /\ order' = Withdrawn(order, name)
    /\ UNCHANGED root_name
    /\ CompoundCall

\* NbtCompound::change_root_name
change_root_name(name) ==
    /\ root_name' = name
    /\ UNCHANGED <<map, order>>
    /\ CompoundCall

\* NbtList::new() and NbtCompound::new("")
InitNbt ==
    /\ type_id = 0 /\ list = <<>> /\ list_result = None
    /\ map = <<>> /\ root_name = <<>> /\ order = <<>>
    /\ CodecIdle
    /\ ConnIdle

NextNbt ==
    \/ \E tag \in ListTags : NbtList_add(tag)
    \/ \E tag \in ListTags : NbtList_add_tag(tag)
    \/ \E name \in EntryNames, tag \in EntryTags : NbtCompound_add(name, tag)
    \/ \E name \in EntryNames : NbtCompound_remove(name)
    \/ \E name \in RootNames : change_root_name(name)

SpecNbt == InitNbt /\ [][NextNbt]_vars

\* ---------------------------------------------------------------- claims: VarInt / VarLong

\* the bytes bs are the little-endian base-128 encoding of the w-bit pattern n:
\* between 1 and maxLen bytes, the continuation bit set on every byte but the
\* last, byte k carrying bits 7(k-1) .. 7k-1 of n, no set bit of n left out,
\* and no more bytes than the pattern needs
IsBase128(bs, n, maxLen) ==
    /\ Len(bs) \in 1..maxLen
    /\ \A k \in 1..Len(bs) : (bs[k] >= 128) <=> (k < Len(bs))
    /\ \A k \in 1..Len(bs) : \A j \in 0..6 :
           BitOf(bs[k], j) = (IF 7 * (k - 1) + j + 1 <= Len(n)
                              THEN n[7 * (k - 1) + j + 1] ELSE 0)
    /\ \A i \in 1..Len(n) : i > 7 * Len(bs) => n[i] = 0
    /\ Len(bs) > 1 => bs[Len(bs)] # 0

\* C7: for every i32 n, VarInt::from_slice(VarInt(n).to_bytes()) is Ok(VarInt(n))
C7_VarIntRoundTrip ==
    (cKind = "VarInt" /\ cStage = "decoded") => cRes = Ok(cIn)

C7_Witness ==
    /\ cKind = "VarInt" /\ cStage = "decoded"
    /\ cIn = IntToI32((-2147483647) - 1)
    /\ cBytes = <<128, 128, 128, 128, 8>>
    /\ cRes = Ok(cIn)

\* C8: for every i64 n, VarLong::from_slice(VarLong(n).to_bytes()) is Ok(VarLong(n))
C8_VarLongRoundTrip ==
    (cKind = "VarLong" /\ cStage = "decoded") => cRes = Ok(cIn)

C8_Witness ==
    /\ cKind = "VarLong" /\ cStage = "decoded"
    /\ cIn = OneBit64(63)
    /\ Len(cBytes) = 10
    /\ cRes = Ok(cIn)

\* C9: VarInt::to_bytes(n) is the little-endian base-128 encoding of the
\* unsigned 32-bit pattern of n, 1 to 5 bytes, only the last byte without the
\* continuation bit, and from_slice of it gives n back; the four test vectors
\* map to their values and the values back to the vectors.
C9_VarIntEncoding ==
    /\ (cKind = "VarInt" /\ cStage # "start") => IsBase128(cBytes, cIn, 5)
    /\ (cKind = "VarInt" /\ cStage = "decoded") => cRes = Ok(cIn)
    /\ (cKind = "VarInt" /\ cStage # "start") =>
           /\ cIn = IntToI32(25565) => cBytes = <<221, 199, 1>>
           /\ cIn = IntToI32(2097151) => cBytes = <<255, 255, 127>>
           /\ cIn = IntToI32(-1) => cBytes = <<255, 255, 255, 255, 15>>
           /\ cIn = IntToI32((-2147483647) - 1) => cBytes = <<128, 128, 128, 128, 8>>
    /\ (cKind = "VarIntBytes" /\ cStage # "start") =>
           /\ cIn = <<221, 199, 1>> => cRes = Ok(IntToI32(25565))
           /\ cIn = <<255, 255, 127>> => cRes = Ok(IntToI32(2097151))
           /\ cIn = <<255, 255, 255, 255, 15>> => cRes = Ok(IntToI32(-1))
           /\ cIn = <<128, 128, 128, 128, 8>> => cRes = Ok(IntToI32((-2147483647) - 1))
    /\ (cKind = "VarIntBytes" /\ cStage = "reencoded") => cBytes = cIn

C9_Witness ==
    /\ cKind = "VarIntBytes" /\ cStage = "reencoded"
    /\ cIn = <<255, 255, 255, 255, 15>>
    /\ cRes = Ok(IntToI32(-1))
    /\ cBytes = cIn

\* C10: VarLong::to_bytes(n) is the little-endian base-128 encoding of the
\* unsigned 64-bit pattern of n, 1 to 10 bytes, only the last byte without the
\* continuation bit, and from_slice of it gives n back; the four test vectors
\* map to their values and the values back to the vectors.
C10_VarLongEncoding ==
    /\ (cKind = "VarLong" /\ cStage # "start") => IsBase128(cBytes, cIn, 10)
    /\ (cKind = "VarLong" /\ cStage = "decoded") => cRes = Ok(cIn)
    /\ (cKind = "VarLong" /\ cStage # "start") =>
           /\ cIn = NatBits(255, 64) => cBytes = <<255, 1>>
           /\ cIn = NatBits(2147483647, 64) => cBytes = <<255, 255, 255, 255, 7>>
           /\ cIn = BvNot(NatBits(0, 64)) =>
                  cBytes = <<255, 255, 255, 255, 255, 255, 255, 255, 255, 1>>
           /\ cIn = I32ToI64(IntToI32((-2147483647) - 1)) =>
                  cBytes = <<128, 128, 128, 128, 248, 255, 255, 255, 255, 1>>
    /\ (cKind = "VarLongBytes" /\ cStage # "start") =>
           /\ cIn = <<255, 1>> => cRes = Ok(NatBits(255, 64))
           /\ cIn = <<255, 255, 255, 255, 7>> => cRes = Ok(NatBits(2147483647, 64))
           /\ cIn = <<255, 255, 255, 255, 255, 255, 255, 255, 255, 1>> =>
                  cRes = Ok(BvNot(NatBits(0, 64)))
           /\ cIn = <<128, 128, 128, 128, 248, 255, 255, 255, 255, 1>> =>
                  cRes = Ok(I32ToI64(IntToI32((-2147483647) - 1)))
    /\ (cKind = "VarLongBytes" /\ cStage = "reencoded") => cBytes = cIn

C10_Witness ==
    /\ cKind = "VarLongBytes" /\ cStage = "reencoded"
    /\ cIn = <<128, 128, 128, 128, 248, 255, 255, 255, 255, 1>>
    /\ cRes = Ok(I32ToI64(IntToI32((-2147483647) - 1)))
    /\ cBytes = cIn

\* ---------------------------------------------------------------- claims: packet codec

\* C5: for every packet p of the registry, deserialize_state of the bytes of
\* mc_serialize(p), under p.state() and p.direction(), returns Ok(p) and leaves
\* the cursor at the end of the bytes.
C5_PacketRoundTrip ==
    (cKind = "Packet" /\ cStage = "decoded") =>
        /\ cRes.ok
        /\ cRes.val = cIn
        /\ cRes.idx = Len(cBytes) + 1

C5_Witness ==
    /\ cKind = "Packet" /\ cStage = "decoded"
    /\ cIn.name = "PingRequest"
    /\ cIn.body.payload = OneBit64(63)
    /\ cRes.ok /\ cRes.val = cIn

\* the wire layout of each packet's fields, written out field by field
ExpectedPayload(p) ==
    CASE p.name = "Handshaking" ->
             VarInt_to_bytes(p.body.protocol_version)
             \o VarInt_to_bytes(IntToI32(Len(p.body.server_address)))
             \o p.body.server_address
             \o <<p.body.port \div 256, p.body.port % 256>>
             \o VarInt_to_bytes(p.body.next_state)
      [] p.name = "StatusResponse" ->
             VarInt_to_bytes(IntToI32(Len(p.body.response))) \o p.body.response
      [] p.name = "LoginStart" ->
             VarInt_to_bytes(IntToI32(Len(p.body.name))) \o p.body.name
      [] p.name = "StatusRequest" -> <<>>
      [] p.name \in {"PingResponse", "PingRequest"} -> BeBytes(p.body.payload)
      [] p.name = "KeepAlive" -> BeBytes(p.body.id)

\* C6: the bytes written by Packet::mc_serialize are VarInt(L), VarInt(id),
\* payload, with L = bytes of VarInt(id) + bytes of payload, and nothing else;
\* the handshake of the test serializes to the bytes the test records.
C6_FrameLayout ==
    (cKind = "Packet" /\ cStage # "start") =>
        LET idBytes == VarInt_to_bytes(IntToI32(SchemaOf(cIn).packetID))
            payload == ExpectedPayload(cIn)
            lenBytes == VarInt_to_bytes(IntToI32(Len(idBytes) + Len(payload)))
        IN  /\ cBytes = lenBytes \o idBytes \o payload
            /\ cIn = TestHandshake =>
                   cBytes = <<16, 0, 246, 5, 9>> \o Localhost \o <<99, 221, 1>>

C6_Witness ==
    /\ cKind = "Packet" /\ cStage = "encoded"
    /\ cIn.name = "KeepAlive"
    /\ cBytes[1] = 10 /\ cBytes[2] = 128 /\ cBytes[3] = 1
    /\ Len(cBytes) = 11

\* ---------------------------------------------------------------- claims: receive_packet

\* every frame of fs is a frame of a registered packet
WellFormed(fs) == \A i \in 1..Len(fs) : fs[i] # "U"
\* what a connection that stays in HANDSHAKING returns for the frames fs
Expected(fs) == [i \in 1..Len(fs) |-> Yield(FramePacket(fs[i]), "HANDSHAKING")]
\* the connection is in HANDSHAKING and has returned no packet in another state
Handshaking ==
    /\ packet_state = "HANDSHAKING"
    /\ \A i \in 1..Len(received) : received[i].state = "HANDSHAKING"
\* the step is a receive_packet call that changed something
ReceiveStep == <<last, offset, buffer, shutdown>>' # <<last, offset, buffer, shutdown>>

\* C1: a frame whose bytes arrive split over several socket reads (three of
\* them, say) yields the packet it yields when it arrives in one read: while
\* bytes of the frame are outstanding the bytes read so far are kept and no
\* packet has been returned, and once the last byte is read the packet has
\* been returned, once.
C1_SplitFrameYieldsPacket ==
    (Len(sent) = 1 /\ WellFormed(sent) /\ Handshaking) =>
        /\ offset < Len(Stream) => (received = <<>> /\ buffer = SubSeq(Stream, 1, offset))
        /\ offset = Len(Stream) => (received = Expected(sent) /\ buffer = <<>>)

\* C2: for well-formed frames and any chunking into socket reads, the packets
\* returned are the frames of the wire in order, none skipped, none
\* duplicated: what has been returned is always a prefix of the frames
\* written, and it is all of them once every byte is read and none is left in
\* the residual buffer.
C2_ReceiveOrder ==
    (WellFormed(sent) /\ Handshaking) =>
        /\ Len(received) <= Len(sent)
        /\ received = SubSeq(Expected(sent), 1, Len(received))
        /\ (offset = Len(Stream) /\ buffer = <<>>) => received = Expected(sent)

\* frames i+1 and i+2 of the wire are well-formed and the connection is in
\* HANDSHAKING
TwoFrames(i) ==
    /\ i + 2 <= Len(sent) /\ sent[i + 1] # "U" /\ sent[i + 2] # "U"
    /\ packet_state = "HANDSHAKING"

\* C3: when one socket read delivers two complete frames, the receive_packet
\* call that made the read returns the first frame's packet and leaves the
\* second frame in the residual buffer; the next call returns the second
\* frame's packet without a socket read and leaves the residual buffer empty.
C3_TwoFramesOneRead ==
    [][\A i \in 0..Len(sent) :
          /\ (/\ TwoFrames(i) /\ buffer = <<>>
              /\ offset = EndOf(sent, i) /\ offset' = EndOf(sent, i + 2)
              /\ last'.reads = 1)
             => (/\ last'.res = Ok(FramePacket(sent[i + 1]))
                 /\ buffer' = FrameBytes(sent[i + 2]))
          /\ (/\ TwoFrames(i) /\ offset = EndOf(sent, i + 2)
              /\ last = Received(Ok(FramePacket(sent[i + 1])), 1, offset - EndOf(sent, i))
              /\ packet_state' = packet_state /\ ReceiveStep)
             => (/\ last' = Received(Ok(FramePacket(sent[i + 2])), 0, 0)
                 /\ buffer' = <<>> /\ offset' = offset)
      ]_vars

\* the unknown-packet error of deserialize_state
UnknownPacket == Err("Could not find matching type.")

\* C4: a receive_packet call that meets a well-formed frame whose id is not
\* registered, at the head of the residual buffer or at the head of what it
\* reads, fails with the unknown-packet error and does not close the socket;
\* the unknown frame is consumed and the bytes behind it are kept, so that the
\* next call returns the packet of the frame that followed.
C4_UnknownPacketSkipped ==
    [][/\ (/\ buffer # <<>> /\ ReceiveStep
           /\ Len(buffer) >= Len(FrameBytes("U"))
           /\ SubSeq(buffer, 1, Len(FrameBytes("U"))) = FrameBytes("U"))
          => (/\ last'.res = UnknownPacket /\ shutdown' = shutdown
              /\ buffer' = SubSeq(buffer, Len(FrameBytes("U")) + 1, Len(buffer)))
       /\ \A i \in 0..(Len(sent) - 1) :
            /\ (/\ sent[i + 1] = "U" /\ buffer = <<>>
                /\ offset = EndOf(sent, i) /\ offset' >= EndOf(sent, i + 1)
                /\ last'.reads = 1)
               => (/\ last'.res = UnknownPacket /\ shutdown' = shutdown
                   /\ buffer' = SubSeq(Stream, EndOf(sent, i + 1) + 1, offset'))
            /\ (/\ sent[i + 1] = "U" /\ i + 2 <= Len(sent) /\ sent[i + 2] # "U"
                /\ packet_state = "HANDSHAKING" /\ packet_state' = packet_state
                /\ last = Received(UnknownPacket, 1, offset - EndOf(sent, i))
                /\ offset >= EndOf(sent, i + 2)
                /\ ReceiveStep)
               => last'.res = Ok(FramePacket(sent[i + 2]))
      ]_vars

\* ---------------------------------------------------------------- claims: malformed VarInt / VarLong

\* the first n bytes of bs exist and all have the continuation bit
ContinuationPrefix(bs, n) == Len(bs) >= n /\ \A k \in 1..n : bs[k] >= CONTINUE_INT

\* C11: VarInt::from_slice never returns Ok for an input whose first 5 bytes
\* all have the continuation bit, an input of 6 such bytes included, and
\* VarLong::from_slice never returns Ok for an input whose first 10 bytes all
\* have it.
C11_OverflowFails ==
    /\ (cKind = "VarIntRaw" /\ cStage = "decoded"
           /\ ContinuationPrefix(cIn, VARINT_MAX_BYTES)) => ~cRes.ok
    /\ (cKind = "VarLongRaw" /\ cStage = "decoded"
           /\ ContinuationPrefix(cIn, VARLONG_MAX_BYTES)) => ~cRes.ok

C11_Witness ==
    /\ cKind = "VarIntRaw" /\ cStage = "decoded"
    /\ cIn = <<128, 128, 128, 128, 128>>
    /\ cRes = Err("Bit length is too long")

\* C12: from_slice fails on every input that ends mid-number: when no byte of
\* the input lacks the continuation bit (the empty input, 1 to 4 bytes for
\* VarInt, 1 to 9 for VarLong) the result is an error, never Ok.
C12_TruncatedFails ==
    /\ (cKind = "VarIntRaw" /\ cStage = "decoded" /\ Len(cIn) < VARINT_MAX_BYTES
           /\ ContinuationPrefix(cIn, Len(cIn))) => ~cRes.ok
    /\ (cKind = "VarLongRaw" /\ cStage = "decoded" /\ Len(cIn) < VARLONG_MAX_BYTES
           /\ ContinuationPrefix(cIn, Len(cIn))) => ~cRes.ok

\* ---------------------------------------------------------------- claims: the connection's interface

\* what receive_packet, send_packet, peek_next_packet_details,
\* enable_compression and close write
OtherCalls == <<last, offset, buffer, frame, peeked, out, sends, compression_threshold, shutdown>>

\* C13: a connection starts in HANDSHAKING with an empty residual buffer;
\* packet_state is always the argument of the most recent change_state call
\* (HANDSHAKING before the first); a step of receive_packet, send_packet,
\* peek_next_packet_details, enable_compression or close leaves packet_state
\* as it is.
C13_StateFollowsChangeState ==
    /\ packet_state = "HANDSHAKING" /\ buffer = <<>>
    /\ [](packet_state = requested)
    /\ [][OtherCalls' # OtherCalls => packet_state' = packet_state]_vars

C13_Witness ==
    /\ packet_state = "LOGIN" /\ requested = "LOGIN"
    /\ Len(received) = 1 /\ received[1].state = "STATUS"
    /\ Len(sends) = 1 /\ sends[1].ok
    /\ peeked = Err("No data received")
    /\ compression_threshold = Ok(256)
    /\ shutdown

\* the step is a peek_next_packet_details call with a new result
PeekStep == peeked' # None /\ peeked' # peeked
\* the step is a receive_packet call that decoded a frame
DecodeStep == last'.res.ok /\ <<received, frame, offset, buffer>>' # <<received, frame, offset, buffer>>
\* the first two VarInts of the frame bytes
FrameLength(bytes) == VarInt_mc_deserialize(bytes, 1)
FrameId(bytes) == VarInt_mc_deserialize(bytes, FrameLength(bytes).idx)

\* C14: peek_next_packet_details leaves the residual buffer and the unread
\* socket bytes as they are, and the (length, packet_id) it returned are the
\* frame length and the packet id of the frame the next receive_packet call
\* decodes, whether that frame was in the residual buffer or still in the
\* socket when the peek was made.
C14_PeekNonDestructive ==
    [][/\ PeekStep => UNCHANGED <<buffer, sent, offset, sock>>
       /\ (peeked.ok /\ DecodeStep) =>
              /\ FrameLength(frame').ok /\ FrameId(frame').ok
              /\ peeked.val = <<FrameLength(frame').val, FrameId(frame').val>>
              /\ Len(frame') = FrameLength(frame').idx - 1 + I32ToInt(peeked.val[1])]_vars

\* a frame was returned, the frame after it waits in the residual buffer, and
\* peek_next_packet_details has returned that frame's length and id
C14_Witness ==
    /\ Len(received) = 1 /\ last.res.ok
    /\ buffer = FrameBytes("H1")
    /\ packet_state = "HANDSHAKING"
    /\ peeked = Ok(<<IntToI32(16), IntToI32(0)>>)

\* the peer has closed or the socket has failed, every byte written was read
\* and the residual buffer is empty
Closed == buffer = <<>> /\ offset = Len(Stream) /\ sock # "open"
\* the step is a receive_packet call whose socket read returned zero bytes
ReadZeroStep ==
    /\ buffer = <<>> /\ offset = Len(Stream) /\ sock = "eof" /\ sock' = "eof"
    /\ last' # last

\* C15: when the residual buffer is empty and the socket read returns zero
\* bytes, receive_packet returns NoDataReceivedError, returns no packet and
\* leaves the residual buffer empty; from then on the connection stays closed
\* with nothing to read, and every receive_packet call on a connection in
\* that condition fails and returns no packet.
C15_ClosedConnectionFails ==
    [][/\ ReadZeroStep =>
              /\ last'.res = Err("NoDataReceivedError")
              /\ received' = received /\ buffer' = <<>>
              /\ Closed'
       /\ Closed =>
              /\ Closed'
              /\ received' = received
              /\ last' # last => ~last'.res.ok]_vars

\* two frames were returned, then a read returned zero bytes
C15_Witness ==
    /\ last.res = Err("NoDataReceivedError")
    /\ Len(received) = 2 /\ buffer = <<>>
    /\ sock = "eof" /\ shutdown

\* the frame of a packet, written out: length, id, payload
ExpectedFrame(p) ==
    LET idBytes == VarInt_to_bytes(IntToI32(SchemaOf(p).packetID))
        payload == ExpectedPayload(p)
    IN  VarInt_to_bytes(IntToI32(Len(idBytes) + Len(payload))) \o idBytes \o payload
\* where the bytes of the i-th send_packet call end in the outbound stream
SendEnd(i) == IF i = Len(sends) THEN Len(out) ELSE sends[i + 1].at

\* C16: a successful send_packet appends to the outbound byte stream exactly
\* the encoded frame of its packet, whole and in one piece, whatever the sizes
\* of the partial writes the socket accepts; the bytes of the calls follow one
\* another in the order of the calls, so no two frames are interleaved, and a
\* failed call has added at most a proper prefix of its frame.
C16_SendWritesWholeFrame ==
    \A i \in 1..Len(sends) :
        /\ sends[i].at <= SendEnd(i)
        /\ i = 1 => sends[i].at = 0
        /\ sends[i].ok =>
               SubSeq(out, sends[i].at + 1, SendEnd(i)) = ExpectedFrame(sends[i].packet)
        /\ ~sends[i].ok =>
               /\ SendEnd(i) - sends[i].at < Len(ExpectedFrame(sends[i].packet))
               /\ SubSeq(out, sends[i].at + 1, SendEnd(i))
                      = SubSeq(ExpectedFrame(sends[i].packet), 1, SendEnd(i) - sends[i].at)

\* two packets were sent one after the other, both in full
C16_Witness ==
    /\ Len(sends) = 2 /\ sends[1].ok /\ sends[2].ok
    /\ sends[1].packet.name = "StatusResponse" /\ sends[2].packet.name = "PingResponse"
    /\ out = <<4, 0, 2, 123, 125>> \o <<9, 1, 0, 0, 0, 0, 0, 0, 0, 255>>

\* ---------------------------------------------------------------- claims: NBT

\* C17: in every NbtList reached from NbtList::new() by add and add_tag
\* calls, accepted or refused, every element of list has the type id type_id,
\* and when the list is not empty type_id is not 0 and no element is End.
C17_ListIsHomogeneous ==
    /\ \A i \in 1..Len(list) : NbtTag_get_type_id(list[i]) = type_id
    /\ list # <<>> => (type_id # 0 /\ \A i \in 1..Len(list) : list[i] # NbtEnd)

\* the entry of the map with the name, written as serialize_tags writes an entry
EntryBytes(name) ==
    LET entry == map[CHOOSE i \in 1..Len(map) : map[i].key = name]
    IN  <<NbtTag_get_type_id(entry.value)>> \o <<0, Len(name)>> \o name
        \o BeBytes(entry.value.value)
\* the entries of the names from the k-th on, in the order of the names
RECURSIVE EntriesInOrder(_, _)
EntriesInOrder(names, k) ==
    IF k > Len(names) THEN <<>> ELSE EntryBytes(names[k]) \o EntriesInOrder(names, k + 1)

\* C18: after any sequence of NbtCompound::add and NbtCompound::remove calls
\* the serialization of the compound emits one entry for each name present,
\* in the order in which the names were inserted: a removal leaves the
\* entries that remain in the order they had.
C18_InsertionOrderKept ==
    /\ Len(map) = Len(order)
    /\ NbtCompound_serialize_tags(map) = Ok(EntriesInOrder(order, 1) \o <<0>>)

\* C19: for every NbtCompound c, whatever its root name and its entries,
\* nested lists included, mc_serialize writes c and mc_deserialize of the
\* bytes written returns a compound equal to c, the entries in the same order.
C19_CompoundRoundTrip ==
    cKind = "NbtCompound" =>
        /\ cStage # "failed"
        /\ cStage = "decoded" =>
               (cRes.ok /\ cRes.val = cIn /\ cRes.val.map = cIn.map)

\* C20: no input makes the library panic: decoding malformed bytes or an NBT
\* tag of type 10, and converting a Packet into the body type of another
\* variant, return an error value.
C20_NoPanic ==
    cStage \in {"decoded", "converted"} => ~Crashed(cRes)

\* the payload of one element of a list: a string as its u16 length and its
\* bytes, a number as its big-endian bytes
ElementPayload(tag) ==
    IF tag.variant = "String"
    THEN <<Len(tag.value) \div 256, Len(tag.value) % 256>> \o tag.value
    ELSE BeBytes(tag.value)
\* the payloads of the elements from the k-th on
RECURSIVE ElementPayloads(_, _)
ElementPayloads(tags, k) ==
    IF k > Len(tags) THEN <<>> ELSE ElementPayload(tags[k]) \o ElementPayloads(tags, k + 1)
\* the list was built with NbtList::add alone: it has elements, all of the
\* type that the first one fixed
BuiltWithAdd ==
    /\ list # <<>> /\ type_id # 0
    /\ \A i \in 1..Len(list) : NbtTag_get_type_id(list[i]) = type_id

\* C28: the payload the list serializer writes is the element type byte, the
\* count as a big-endian i32 and the payloads of the elements without type
\* bytes or names, and the list deserializer reads it back to an equal list.
C28_ListPayloadRoundTrip ==
    BuiltWithAdd =>
        \E w \in {NbtList_mc_serialize(list)} :
            /\ w = Ok(<<type_id>> \o BeBytes(IntToI32(Len(list))) \o ElementPayloads(list, 1))
            /\ NbtList_mc_deserialize(w.val, 1)
                   = OkAt([type_id |-> type_id, list |-> list], Len(w.val) + 1)

\* the payload of the tag of a compound's entry: that of a list is its element
\* type, its count and the payloads of its elements
EntryPayload(tag) ==
    IF tag.variant = "List"
    THEN <<tag.value.type_id>> \o BeBytes(IntToI32(Len(tag.value.list)))
             \o ElementPayloads(tag.value.list, 1)
    ELSE ElementPayload(tag)
\* the entries from the k-th on: type id, u16 length of the name, name, payload
RECURSIVE EntriesWritten(_, _)
EntriesWritten(entries, k) ==
    IF k > Len(entries) THEN <<>>
    ELSE <<NbtTag_get_type_id(entries[k].value)>>
         \o <<Len(entries[k].key) \div 256, Len(entries[k].key) % 256>> \o entries[k].key
         \o EntryPayload(entries[k].value) \o EntriesWritten(entries, k + 1)

\* C29: NbtCompound::mc_serialize writes byte 10, the root name with its u16
\* length, every entry in order as type id, name with its u16 length and
\* payload, and one End byte; mc_serialize_network writes the same bytes
\* without the root name and its length.
C29_CompoundLayout ==
    (cKind \in {"NbtCompound", "NbtCompoundNetwork"} /\ cStage # "start") =>
        /\ cStage # "failed"
        /\ cBytes = <<10>>
                    \o (IF cKind = "NbtCompound"
                        THEN <<Len(cIn.root_name) \div 256, Len(cIn.root_name) % 256>>
                                 \o cIn.root_name
                        ELSE <<>>)
                    \o EntriesWritten(cIn.map, 1) \o <<0>>

\* C30: NbtTag::mc_serialize returns for every tag, the ByteArray, List,
\* Compound, IntArray and LongArray variants included.
C30_TagSerializeReturns ==
    (cKind = "NbtTag" /\ cStage # "start") => (cStage = "encoded" /\ cRes.ok)

\* ---------------------------------------------------------------- claims: packet states
\* C22: PacketState::from_id gives Some(STATUS) for 1, Some(LOGIN) for 2 and
\* None for every other byte; get_id is None for HANDSHAKING, CONFIGURATION and
\* PLAY; and from_id gives back every state that has an id.
C22_StateIds ==
    /\ (cKind = "StateId" /\ cStage = "decoded") =>
           cRes = (IF cIn = 1 THEN Ok("STATUS") ELSE IF cIn = 2 THEN Ok("LOGIN") ELSE None)
    /\ (cKind = "State" /\ cStage = "encoded") =>
           /\ cIn \in {"HANDSHAKING", "CONFIGURATION", "PLAY"} => cRes = None
           /\ cIn = "STATUS" => cRes = Ok(1)
           /\ cIn = "LOGIN" => cRes = Ok(2)
    /\ (cKind = "State" /\ cStage = "decoded") => cRes = Ok(cIn)

C22_Witness ==
    cKind = "State" /\ cStage = "decoded" /\ cIn = "LOGIN" /\ cBytes = <<2>>
    /\ cRes = Ok("LOGIN")

\* ---------------------------------------------------------------- claims: frames
\* the length prefix of a frame input, and the index after the frame
PrefixLen(f) == Len(VarInt_to_bytes(IntToI32(f.length)))
FrameEnd(f) == PrefixLen(f) + f.length + 1
\* the frame's own bytes, when the input holds all of them
FrameSub(f) == SubSeq(FrameData(f), PrefixLen(f) + 1, PrefixLen(f) + f.length)
FrameWhole(f) == f.length >= 0 /\ PrefixLen(f) + f.length <= Len(FrameData(f))
\* the schemas registered for the input's state, direction and id
Registered(f) ==
    {k \in 1..Len(Registry) : /\ Registry[k].state = f.state
                              /\ Registry[k].direction = f.direction
                              /\ Registry[k].packetID = f.id}

\* C21: a frame whose length prefix is greater than 2,097,151 or negative is
\* rejected with the length-exceeds-bound error.
C21_MaxFrameLength ==
    (cKind = "Frame" /\ cStage = "decoded"
     /\ (cIn.length > MAX_FRAME_LENGTH \/ cIn.length < 0)) =>
        cRes = Err("LengthExceedsBound")

\* C24: when the id of a frame is registered for the state and direction and
\* the body decoder fails, deserialize_state returns the body decoder's error,
\* not the error of an unknown packet.
C24_BodyErrorPropagates ==
    (cKind = "Frame" /\ cStage = "decoded" /\ FrameWhole(cIn)
     /\ cIn.length >= Len(VarInt_to_bytes(IntToI32(cIn.id)))) =>
        \A k \in Registered(cIn) :
            \E a \in {Body_mc_deserialize(Registry[k].fields, 1, FrameSub(cIn),
                                          Len(VarInt_to_bytes(IntToI32(cIn.id))) + 1, <<>>)} :
                ~a.ok => (cRes = Err(a.err) /\ cRes.err # "Could not find matching type.")

\* C25: a packet returned by deserialize_state belongs to the state and the
\* direction it was asked for and has the id read from the frame; an id
\* registered under another state or direction is not decoded as that packet.
C25_DispatchByStateAndDirection ==
    /\ (cKind = "Frame" /\ cStage = "decoded" /\ cRes.ok) =>
           /\ Packet_state(cRes.val) = cIn.state
           /\ Packet_direction(cRes.val) = cIn.direction
           /\ Packet_packet_id(cRes.val) = IntToI32(cIn.id)
    /\ (cKind = "Frame" /\ cStage = "decoded" /\ Registered(cIn) = {}) => ~cRes.ok
    /\ (cKind = "Frame" /\ cStage = "next" /\ cRes.ok) =>
           /\ Packet_state(cRes.val) = cIn.state
           /\ Packet_direction(cRes.val) = cIn.direction

C25_Witness ==
    /\ cKind = "Frame" /\ cStage = "decoded" /\ cIn.state = "LOGIN" /\ cIn.direction = "SERVER"
    /\ cIn.id = 0 /\ cIn.body = <<2, 123, 125>> /\ cIn.length = 4 /\ cIn.tail = <<>>
    /\ cRes.ok /\ cRes.val = [name |-> "LoginStart", body |-> [name |-> <<123, 125>>]]

\* C26: after a frame of declared length L is decoded, the parent cursor is
\* L bytes after the length prefix, also when the body decoder read fewer
\* bytes; the next frame is decoded from the first byte after them.
C26_CursorAfterFrame ==
    /\ (cKind = "Frame" /\ cStage = "decoded" /\ cRes.ok) =>
           /\ FrameWhole(cIn)
           /\ cRes.idx = FrameEnd(cIn)
           /\ cBytes = SubSeq(FrameData(cIn), FrameEnd(cIn), Len(FrameData(cIn)))
    /\ (cKind = "Frame" /\ cStage = "next" /\ cIn.tail = <<1, 0>>
        /\ cIn.length = Len(VarInt_to_bytes(IntToI32(cIn.id))) + Len(cIn.body)) =>
           IF cIn.state = "STATUS" /\ cIn.direction = "SERVER"
           THEN cRes.ok /\ cRes.val = [name |-> "StatusRequest", body |-> <<>>]
                /\ cBytes = <<>>
           ELSE ~cRes.ok

C26_Witness ==
    /\ cKind = "Frame" /\ cStage = "next" /\ cIn.state = "STATUS" /\ cIn.direction = "SERVER"
    /\ cIn.id = 0 /\ cIn.body = <<2, 123, 125>> /\ cIn.length = 4 /\ cIn.tail = <<1, 0>>
    /\ cRes.ok /\ cRes.val.name = "StatusRequest" /\ cBytes = <<>>

\* ---------------------------------------------------------------- claims: the residual buffer
\* the bytes are the beginning of a frame and not all of it: the length prefix
\* is cut short, or fewer bytes than it announces follow it
PartialFrame(bytes) ==
    /\ bytes # <<>>
    /\ \/ FrameLength(bytes) = Err("InputEnded")
       \/ /\ FrameLength(bytes).ok
          /\ I32ToInt(FrameLength(bytes).val) >= 0
          /\ Len(bytes) < FrameLength(bytes).idx - 1 + I32ToInt(FrameLength(bytes).val)
\* the frame that the bytes and the pending bytes of the wire begin with
CompletedFrame(bytes) ==
    LET all == bytes \o Wire
    IN  SubSeq(all, 1, FrameLength(all).idx - 1 + I32ToInt(FrameLength(all).val))

\* C23: a receive_packet call that finds only the beginning of a frame in the
\* residual buffer, with the rest of the frame on its way, does not fail: it
\* reads from the socket, completes the frame and returns its packet.
C23_PartialResidualCompleted ==
    [][(/\ PartialFrame(buffer) /\ sock = "open"
        /\ FrameLength(buffer \o Wire).ok
        /\ Len(CompletedFrame(buffer)) <= Len(buffer) + Len(Wire)
        /\ last' # last)
       => (/\ last'.res.ok
           /\ last'.reads >= 1
           /\ Len(received') = Len(received) + 1
           /\ frame' = CompletedFrame(buffer))]_vars

\* C27: a receive_packet call decodes its frame under the state of the latest
\* change_state call, also when the frame's bytes were in the residual buffer
\* before that call was made.
C27_DecodedUnderRequestedState ==
    [][Len(received') > Len(received) =>
          \E y \in {received'[Len(received')]} :
              /\ y.state = requested
              /\ last'.res = Ok(y.packet)
              /\ Packet_deserialize_state(frame', 1, requested, "SERVER")
                     = OkAt(y.packet, Len(frame') + 1)
              /\ buffer # <<>> => (last'.reads = 0 /\ buffer = frame' \o buffer')]_vars

C27_Witness ==
    /\ Len(received) = 2 /\ received[1] = Yield(TestHandshake, "HANDSHAKING")
    /\ received[2] = Yield([name |-> "StatusRequest", body |-> <<>>], "STATUS")
    /\ requested = "STATUS" /\ last.reads = 0 /\ frame = FrameBytes("H1") /\ buffer = <<>>
    /\ offset = 2 * Len(FrameBytes("H1"))

\* ---------------------------------------------------------------- claims: bytes read
\* C31: in a receive_packet call that reads from the socket and returns a
\* packet, the bytes taken from the socket are the decoded frame followed by
\* what the call leaves in the residual buffer, also when the first read
\* fills the chunk and try_read takes more.
C31_NoByteLost ==
    [][(Len(received') > Len(received) /\ last'.reads >= 1) =>
          /\ offset' - offset = last'.taken
          /\ SubSeq(Stream, offset + 1, offset') = frame' \o buffer']_vars

====
